---- MODULE Spec2Model ----
(***************************************************************************)
(* Command dispatch and execution engine of the hub, in its four versions: *)
(*   "hub"      src/hub/hub.py                      (HubWorker)            *)
(*   "portable" src/portable-hub/portable_hub_silent.py (HubWorker)        *)
(*   "v2"       src/v2/hub/hub.py                   (HubWorker)            *)
(*   "spcrew"   src/hub/sp_crew_hub.py              (SPCrewHub)            *)
(* The backend tables script_commands and script_results, the in-memory    *)
(* processed_commands set, the asyncio tasks created by the 'command       *)
(* inserted' handler and the child processes they launch are the state.    *)
(* Texts (stdout, stderr, error messages) are sequences of strings; the    *)
(* output of a child process is a sequence of one-character strings.       *)
(***************************************************************************)
EXTENDS Integers, Sequences, FiniteSets, TLC

VARIABLES
    variant,              \* which of the four hub versions runs
    dbFaults,             \* environment: backend calls that may still raise
    available_scripts,    \* self.available_scripts / self.available_programs
    processed_commands,   \* self.processed_commands (portable, spcrew)
    cmdPayload,           \* script_commands rows as inserted by the remotes
    cmdStatus,            \* script_commands.status, per command id
    script_results,       \* script_results table, in insertion order
    tasks,                \* executions created by the handler, in creation order
    spawnCount,           \* child processes launched, per command id
    delivered,            \* 'command inserted' events delivered, per command id
    nEvents,              \* events delivered so far
    statusLog,            \* statuses the hub wrote successfully, per command id
    loopBusy,             \* the event-loop thread sits in a blocking call
    clsIn,                \* classifier harness: the finished process
    clsOut,               \* classifier harness: the classification
    running,              \* self.running
    reconnect_attempts,   \* self.reconnect_attempts
    channel,              \* self.channel: "none" | "subscribed" | "broken" | "unsubscribed"
    presence_channel,     \* self.presence_channel, likewise
    chains,               \* reconnect_websocket tasks, one slot per chain
    gaveUp,               \* the 'Max reconnection attempts reached' branch was taken
    wasReset,             \* a successful reconnection has reset a non-zero counter
    mainPc,               \* run_async: "init" | "loop" | "cleaned" | "exited"
    hbPc,                 \* heartbeat thread: "off" | "write" | "sleep" | "ended"
    hbLast,               \* outcome of the last heartbeat write: "none" | "ok" | "failed"
    shutdownLog,          \* the calls made by the cleanup, in order
    hubs,                 \* hubs table, in insertion order
    hub_id,               \* self.hub_id of the hub process on each machine
    hub_scripts,          \* hub_scripts table, a set of rows
    regs,                 \* per machine: what its registrations did
    nRegs,                \* calls of register_hub so far
    scripts_dir,          \* self.scripts_dir: what each name is on disk
    scripts_dir_exists,   \* self.scripts_dir.exists()
    script_dependencies_ready, \* self.script_dependencies_ready
    failed_deps,          \* failed_deps of the last discover_scripts
    nDisc,                \* calls of discover_scripts so far
    lastExec,             \* what the last execute_script did about dependencies
    active_remotes,       \* active_remotes table, a set of rows
    remoteEvents,         \* postgres changes of active_remotes not yet handled
    nRemoteWrites,        \* writes to active_remotes by the web application so far
    asgLog,               \* what each call of handle_remote_connection did
    disabled_scripts,     \* AutomationHub: self.disabled_scripts
    paired_remotes,       \* AutomationHub: assigned_command of each paired remote
    outbox                \* AutomationHub: what the last handler published

cmdVars == <<variant, dbFaults, available_scripts, processed_commands,
             cmdPayload, cmdStatus, script_results, tasks, spawnCount,
             delivered, nEvents, statusLog, loopBusy>>
clsVars == <<clsIn, clsOut>>
hubVars == <<running, reconnect_attempts, channel, presence_channel, chains, gaveUp,
             wasReset, mainPc, hbPc, hbLast, shutdownLog>>
regVars == <<hubs, hub_id, hub_scripts, regs, nRegs>>
discVars == <<scripts_dir, scripts_dir_exists, script_dependencies_ready, failed_deps,
              nDisc, lastExec>>
asgVars == <<active_remotes, remoteEvents, nRemoteWrites, asgLog>>
pairVars == <<disabled_scripts, paired_remotes, outbox>>
extVars == <<discVars, asgVars, pairVars>>
vars == <<cmdVars, clsVars, hubVars, regVars, extVars>>

(***************************************************************************)
(* Bounds                                                                  *)
(***************************************************************************)
MaxEvents == 2
MaxDbFaults == 2

\* two command ids: enough to tell a redelivery from another command
CmdIds == {1, 2}
Variants == {"hub", "portable", "v2", "spcrew"}
None == "None"
\* a payload without id (not command_id holds)
NoId == 0
Absent == "Absent"
NoRow == [script_name |-> None, status |-> None]

(***************************************************************************)
(* Text helpers: str.lower() and the `in` operator on strings              *)
(***************************************************************************)
UpperAlpha == <<"A","B","C","D","E","F","G","H","I","J","K","L","M",
                "N","O","P","Q","R","S","T","U","V","W","X","Y","Z">>
LowerAlpha == <<"a","b","c","d","e","f","g","h","i","j","k","l","m",
                "n","o","p","q","r","s","t","u","v","w","x","y","z">>

LowerChar(ch) ==
    IF \E i \in 1..26 : UpperAlpha[i] = ch
    THEN LowerAlpha[CHOOSE i \in 1..26 : UpperAlpha[i] = ch]
    ELSE ch

Lower(s) == [i \in 1..Len(s) |-> LowerChar(s[i])]

Contains(sub, s) ==
    \E i \in 0..(Len(s) - Len(sub)) : SubSeq(s, i + 1, i + Len(sub)) = sub

W_success == <<"s","u","c","c","e","s","s">>
W_completed == <<"c","o","m","p","l","e","t","e","d">>
W_done == <<"d","o","n","e">>
W_error == <<"e","r","r","o","r">>
W_failed == <<"f","a","i","l","e","d">>
W_exception == <<"e","x","c","e","p","t","i","o","n">>

(***************************************************************************)
(* Success classification of a process that ended before the timeout       *)
(***************************************************************************)
SuccessIndicatorsNoLower(rc, stdout) ==
    <<rc = 0, Contains(W_success, stdout), Contains(W_completed, stdout),
      Contains(W_done, stdout)>>

SuccessIndicators(rc, stdout) ==
    <<rc = 0,
      Contains(W_success, Lower(stdout)),
      Contains(W_completed, Lower(stdout)),
      Contains(W_done, Lower(stdout))>>

ErrorIndicators(stderr) ==
    <<Contains(W_error, Lower(stderr)),
      Contains(W_failed, Lower(stderr)),
      Contains(W_exception, Lower(stderr))>>

AnyOf(flags) == \E i \in 1..Len(flags) : flags[i]

IsSuccess(rc, stdout, stderr) ==
    (rc = 0 \/ AnyOf(SuccessIndicators(rc, stdout))) /\ ~AnyOf(ErrorIndicators(stderr))

\* sp_crew_hub.py looks at the exit code only
IsSuccessSPCrew(rc) == rc = 0

(***************************************************************************)
(* Program constants                                                       *)
(***************************************************************************)
HubTimeout == 15
PortableTimeout == 30
PortableTimeoutText == 15
V2Timeout == 30

\* the timeout handed to wait_for / subprocess.run
TimeoutSeconds(v) ==
    CASE v = "hub" -> HubTimeout
      [] v = "portable" -> PortableTimeout
      [] OTHER -> V2Timeout

\* the number of seconds written in the timeout error text
TimeoutTextSeconds(v) ==
    CASE v = "hub" -> HubTimeout
      [] v = "portable" -> PortableTimeoutText
      [] OTHER -> V2Timeout

\* str(n) for the numbers that occur
NumText(n) == IF n = 15 THEN "15" ELSE IF n = 30 THEN "30" ELSE "?"

(***************************************************************************)
(* Environment: the scripts and what their processes do                    *)
(***************************************************************************)
Txt_empty == <<>>
Txt_done == <<"d","o","n","e">>
Txt_boom == <<"b","o","o","m">>
Txt_exc == <<"E","x","c","e","p","t","i","o","n",":"," ","x">>

ExitOutcome(rc, out, err) == [kind |-> "exit", rc |-> rc, stdout |-> out, stderr |-> err]
HangOutcome == [kind |-> "hang", rc |-> 0, stdout |-> Txt_empty, stderr |-> Txt_empty]
NoSpawnOutcome == [kind |-> "nospawn", rc |-> 0, stdout |-> Txt_empty, stderr |-> Txt_empty]
NoOutcome == [kind |-> "none", rc |-> 0, stdout |-> Txt_empty, stderr |-> Txt_empty]

OkOutcome == ExitOutcome(0, Txt_empty, Txt_empty)
FailOutcome == ExitOutcome(1, Txt_empty, Txt_boom)
OverrideOutcome == ExitOutcome(1, Txt_done, Txt_empty)

DiscoveredScripts == {"beep", "flaky", "loop"}
ScriptNames == DiscoveredScripts \cup {"ghost"}

\* what a process launched for the script may do: "beep" exits 0 silently,
\* "loop" never terminates on its own, "flaky" fails in one of several ways
\* (or cannot be launched at all), "ghost" is not installed
ScriptOutcomes(script) ==
    CASE script = "beep" -> {OkOutcome}
      [] script = "loop" -> {HangOutcome}
      [] script = "flaky" -> {FailOutcome, OverrideOutcome, NoSpawnOutcome}
      [] OTHER -> {FailOutcome}

\* which backend calls of one step raise (as far as the step gets to them)
DbFail == IF dbFaults = 0 THEN {FALSE} ELSE BOOLEAN
FailChoices == [{"exec", "insert", "final", "fallback"} -> DbFail]

(***************************************************************************)
(* Backend calls.  D is the view one step has of the backend and of its    *)
(* own trace: st (script_commands.status), rows (script_results), slog     *)
(* (statuses written), log (the calls of this execution), faults (calls of *)
(* this step that raised).  A call that raises changes no table.           *)
(***************************************************************************)
LogEntry(op, arg, ok) == [op |-> op, arg |-> arg, ok |-> ok]

UpdateStatus(D, op, c, s, raises) ==
    IF raises
    THEN [D EXCEPT !.log = Append(@, LogEntry(op, s, FALSE)), !.faults = @ + 1]
    ELSE [D EXCEPT !.st[c] = s, !.slog[c] = Append(@, s),
                   !.log = Append(@, LogEntry(op, s, TRUE))]

InsertResult(D, row, raises) ==
    IF raises
    THEN [D EXCEPT !.log = Append(@, LogEntry("insert", "script_results", FALSE)),
                   !.faults = @ + 1]
    ELSE [D EXCEPT !.rows = Append(@, row),
                   !.log = Append(@, LogEntry("insert", "script_results", TRUE))]

Note(D, op, arg, ok) == [D EXCEPT !.log = Append(@, LogEntry(op, arg, ok))]

(***************************************************************************)
(* Results of the executor                                                 *)
(***************************************************************************)
NoRes == [set |-> FALSE, success |-> FALSE, output |-> Txt_empty, error |-> Txt_empty]

NotFoundResult(script) ==
    [set |-> TRUE, success |-> FALSE, output |-> Txt_empty,
     error |-> <<"Script not found: ", script>>]

ExceptionResult ==
    [set |-> TRUE, success |-> FALSE, output |-> Txt_empty, error |-> <<"str(e)">>]

TimeoutResult(v) ==
    [set |-> TRUE, success |-> FALSE, output |-> Txt_empty,
     error |-> <<"Script execution timed out (", NumText(TimeoutTextSeconds(v)), "s limit)">>]

RanResult(oc) ==
    [set |-> TRUE,
     success |-> IsSuccess(oc.rc, oc.stdout, oc.stderr),
     output |-> IF oc.rc = 0 THEN oc.stdout ELSE oc.stderr,
     error |-> IF oc.rc = 0 THEN Txt_empty ELSE oc.stderr]

DbErrorResult ==
    [set |-> TRUE, success |-> FALSE, output |-> Txt_empty,
     error |-> <<"Database error: ", "str(db_error)">>]

\* the script_results row written from an executor result
ResultRow(c, res) ==
    [command_id |-> c, exit_code |-> IF res.success THEN 0 ELSE 1,
     stdout |-> res.output, stderr |-> res.error, success |-> res.success]

\* the rows sp_crew_hub.py writes
SPCrewRow(c, oc) ==
    [command_id |-> c, exit_code |-> oc.rc, stdout |-> oc.stdout,
     stderr |-> oc.stderr, success |-> IsSuccessSPCrew(oc.rc)]

SPCrewSpawnFailedRow(c) ==
    [command_id |-> c, exit_code |-> 1, stdout |-> Txt_empty,
     stderr |-> <<"str(e)">>, success |-> FALSE]

(***************************************************************************)
(* Recording a result.  F tells which backend calls raise; a raising call  *)
(* sends control to the except branch, as in the code.                     *)
(***************************************************************************)
\* the except branch: best-effort write of status failed, its own failure is swallowed
FallbackFailed(D, c, F) == UpdateStatus(D, "fallback", c, "failed", F["fallback"])

\* a variant of RecordResult that goes on to the status write when the insert raised
RecordResultInsertIgnored(D, c, res, F) ==
    UpdateStatus(InsertResult(D, ResultRow(c, res), F["insert"]), "final", c,
                 IF res.success THEN "completed" ELSE "failed", FALSE)

\* a variant of RecordResult that writes the final status before the row
RecordResultStatusFirst(D, c, res, F) ==
    InsertResult(UpdateStatus(D, "final", c, IF res.success THEN "completed" ELSE "failed",
                              FALSE),
                 ResultRow(c, res), FALSE)

\* insert the row, write the final status; fall back when either raises
RecordResult(D, c, res, F) ==
    IF F["insert"]
    THEN FallbackFailed(InsertResult(D, ResultRow(c, res), TRUE), c, F)
    ELSE IF F["final"]
    THEN FallbackFailed(
             UpdateStatus(InsertResult(D, ResultRow(c, res), FALSE), "final", c,
                          IF res.success THEN "completed" ELSE "failed", TRUE), c, F)
    ELSE UpdateStatus(InsertResult(D, ResultRow(c, res), FALSE), "final", c,
                      IF res.success THEN "completed" ELSE "failed", FALSE)

\* sp_crew_hub.py, _update_and_monitor: the except branch only logs
SPCrewRecord(D, c, oc, F) ==
    IF F["insert"]
    THEN InsertResult(D, SPCrewRow(c, oc), TRUE)
    ELSE UpdateStatus(InsertResult(D, SPCrewRow(c, oc), FALSE), "final", c,
                      IF IsSuccessSPCrew(oc.rc) THEN "completed" ELSE "failed", F["final"])

\* sp_crew_hub.py, execute_program_async when spawn_program raised
SPCrewSpawnFailed(D, c, F) ==
    IF F["insert"]
    THEN FallbackFailed(InsertResult(D, SPCrewSpawnFailedRow(c), TRUE), c, F)
    ELSE IF F["final"]
    THEN FallbackFailed(
             UpdateStatus(InsertResult(D, SPCrewSpawnFailedRow(c), FALSE), "final", c,
                          "failed", TRUE), c, F)
    ELSE UpdateStatus(InsertResult(D, SPCrewSpawnFailedRow(c), FALSE), "final", c,
                      "failed", FALSE)

(***************************************************************************)
(* Executions (asyncio tasks, or the blocking handler of v2)               *)
(*   pc: "start"    created, nothing done yet                              *)
(*       "spawned"  spcrew: process launched, _update_and_monitor not run  *)
(*       "running"  waiting for the process                                *)
(*       "reaping"  timeout fired, process killed, awaiting proc.wait()    *)
(*       "done"     the handling of the command has ended                  *)
(*   proc: "none" | "running" | "killed" (signal sent, not yet gone) |     *)
(*         "exited"                                                        *)
(***************************************************************************)
NewTask(c, script) ==
    [cmd |-> c, script |-> script, pc |-> "start", proc |-> "none",
     outcome |-> NoOutcome, log |-> <<>>, res |-> NoRes, elapsed |-> 0]

View(st, t) ==
    [st |-> st, rows |-> script_results, slog |-> statusLog, log |-> t.log, faults |-> 0]

\* outcome of a step: the backend view, the task and whether a process was launched
Ended(D, t, res) ==
    [db |-> D, spawned |-> FALSE, task |-> [t EXCEPT !.pc = "done", !.res = res]]

Launched(D, t, oc, pc) ==
    [db |-> D, spawned |-> TRUE,
     task |-> [t EXCEPT !.pc = pc, !.proc = "running", !.outcome = oc]]

\* a variant of ExecuteOrLaunch without the look-up in available_scripts
ExecuteOrLaunchUnchecked(D, t, oc, F) ==
    IF oc.kind = "nospawn"
    THEN Ended(RecordResult(Note(D, "spawn", t.script, FALSE), t.cmd, ExceptionResult, F),
               t, ExceptionResult)
    ELSE Launched(Note(D, "spawn", t.script, TRUE), t, oc, "running")

\* the executor up to the launch of the process, and the recording of a
\* result that is known without a process
ExecuteOrLaunch(D, t, oc, F) ==
    IF t.script \notin available_scripts
    THEN Ended(RecordResult(D, t.cmd, NotFoundResult(t.script), F), t,
               NotFoundResult(t.script))
    ELSE IF oc.kind = "nospawn"
    THEN Ended(RecordResult(Note(D, "spawn", t.script, FALSE), t.cmd, ExceptionResult, F),
               t, ExceptionResult)
    ELSE Launched(Note(D, "spawn", t.script, TRUE), t, oc, "running")

\* hub.py / portable: execute_script_async up to the first wait on the process
StartAsync(D, t, oc, F) ==
    IF F["exec"]
    THEN Ended(FallbackFailed(UpdateStatus(D, "exec", t.cmd, "executing", TRUE), t.cmd, F),
               t, NoRes)
    ELSE ExecuteOrLaunch(UpdateStatus(D, "exec", t.cmd, "executing", FALSE), t, oc, F)

\* v2: handle_execute_message from the 'executing' write to subprocess.run
StartV2(D, t, oc, F) ==
    IF F["exec"]
    THEN Ended(RecordResult(UpdateStatus(D, "exec", t.cmd, "executing", TRUE), t.cmd,
                            DbErrorResult, F), t, DbErrorResult)
    ELSE ExecuteOrLaunch(UpdateStatus(D, "exec", t.cmd, "executing", FALSE), t, oc, F)

\* spcrew: execute_program_async, which launches the process first
StartSPCrew(D, t, oc, F) ==
    IF oc.kind = "nospawn"
    THEN Ended(SPCrewSpawnFailed(Note(D, "spawn", t.script, FALSE), t.cmd, F), t, NoRes)
    ELSE Launched(Note(D, "spawn", t.script, TRUE), t, oc, "spawned")

\* spcrew: _update_and_monitor up to the wait on the process; its except
\* branch only logs, and the process is left to itself
MonitorStart(D, t, F) ==
    [db |-> UpdateStatus(D, "exec", t.cmd, "executing", F["exec"]), spawned |-> FALSE,
     task |-> [t EXCEPT !.pc = IF F["exec"] THEN "done" ELSE "running"]]

\* the process of an execution has ended by itself: classify and record
AfterExit(v, D, t, F) ==
    IF v = "spcrew"
    THEN Ended(SPCrewRecord(Note(D, "exit", t.script, TRUE), t.cmd, t.outcome, F),
               [t EXCEPT !.proc = "exited"], NoRes)
    ELSE Ended(RecordResult(Note(D, "exit", t.script, TRUE), t.cmd, RanResult(t.outcome), F),
               [t EXCEPT !.proc = "exited"], RanResult(t.outcome))

\* the executor returns the timeout failure, which is recorded
AfterTimeout(v, D, t, F) ==
    Ended(RecordResult(D, t.cmd, TimeoutResult(v), F), t, TimeoutResult(v))

\* writes the outcome R of a step of task i back into the state
Commit(i, R, ts) ==
    /\ R.db.faults <= dbFaults
    /\ dbFaults' = dbFaults - R.db.faults
    /\ cmdStatus' = R.db.st
    /\ script_results' = R.db.rows
    /\ statusLog' = R.db.slog
    /\ tasks' = [ts EXCEPT ![i] = [R.task EXCEPT !.log = R.db.log]]
    /\ spawnCount' = IF R.spawned
                     THEN [spawnCount EXCEPT ![R.task.cmd] = @ + 1]
                     ELSE spawnCount

(***************************************************************************)
(* The 'command inserted' handler                                          *)
(***************************************************************************)
\* the rows the remotes insert: any script with status pending, and samples
\* of rows without status, without script name or with another status
Payloads ==
    [script_name : ScriptNames, status : {"pending"}]
    \cup {[script_name |-> "beep", status |-> Absent],
          [script_name |-> None, status |-> "pending"],
          [script_name |-> "beep", status |-> "completed"]}

\* an event for an existing row is a redelivery of its INSERT payload
EventsFor(c) ==
    IF c \in CmdIds /\ cmdPayload[c] # NoRow THEN {cmdPayload[c]} ELSE Payloads

\* status = data.get('status', 'pending')
StatusOf(p) == IF p.status = Absent THEN "pending" ELSE p.status

\* if not script_name or not command_id or status != 'pending': return
NoStatusCheck(c, p) == ~(p.script_name = None \/ c = NoId)

WellFormed(c, p) == ~(p.script_name = None \/ c = NoId \/ StatusOf(p) # "pending")

\* if command_id in self.processed_commands: return
NeverDuplicate(v, c) == FALSE

IsDuplicate(v, c) == v \in {"portable", "spcrew"} /\ c \in processed_commands

handle_execute_message(c, p) ==
    LET accepted == WellFormed(c, p) /\ ~IsDuplicate(variant, c)
        st == IF c \in CmdIds /\ cmdPayload[c] = NoRow
              THEN [cmdStatus EXCEPT ![c] = StatusOf(p)] ELSE cmdStatus
        t == NewTask(c, p.script_name)
        ts == Append(tasks, t)
    IN  /\ nEvents < MaxEvents
        /\ ~loopBusy
        /\ p \in EventsFor(c)
        /\ nEvents' = nEvents + 1
        /\ delivered' = IF c \in CmdIds THEN [delivered EXCEPT ![c] = @ + 1] ELSE delivered
        /\ cmdPayload' = IF c \in CmdIds THEN [cmdPayload EXCEPT ![c] = p] ELSE cmdPayload
        /\ processed_commands' =
              IF accepted /\ variant \in {"portable", "spcrew"}
              THEN processed_commands \cup {c} ELSE processed_commands
        /\ IF ~accepted
           THEN /\ cmdStatus' = st
                /\ UNCHANGED <<script_results, statusLog, tasks, spawnCount, loopBusy,
                               dbFaults>>
           ELSE IF variant = "v2"
           THEN \E oc \in ScriptOutcomes(p.script_name), F \in FailChoices :
                    \E R \in {StartV2(View(st, t), t, oc, F)} :
                        /\ Commit(Len(ts), R, ts)
                        /\ loopBusy' = R.spawned
           ELSE /\ cmdStatus' = st
                /\ tasks' = ts
                /\ UNCHANGED <<script_results, statusLog, spawnCount, loopBusy, dbFaults>>
        /\ UNCHANGED <<variant, available_scripts, clsVars, hubVars, regVars, extVars>>

(***************************************************************************)
(* Steps of an execution                                                   *)
(***************************************************************************)
Frame == UNCHANGED <<variant, available_scripts, processed_commands,
                     cmdPayload, delivered, nEvents, clsVars, hubVars, regVars,
                     extVars>>

\* hub.py / portable: the task created by the handler starts to run
execute_script_async(i) ==
    /\ variant \in {"hub", "portable"}
    /\ ~loopBusy
    /\ tasks[i].pc = "start"
    /\ \E oc \in ScriptOutcomes(tasks[i].script), F \in FailChoices :
          \E R \in {StartAsync(View(cmdStatus, tasks[i]), tasks[i], oc, F)} :
              Commit(i, R, tasks)
    /\ UNCHANGED loopBusy
    /\ Frame

\* spcrew: the task created by the handler starts to run
execute_program_async(i) ==
    /\ variant = "spcrew"
    /\ ~loopBusy
    /\ tasks[i].pc = "start"
    /\ \E oc \in ScriptOutcomes(tasks[i].script), F \in FailChoices :
          \E R \in {StartSPCrew(View(cmdStatus, tasks[i]), tasks[i], oc, F)} :
              Commit(i, R, tasks)
    /\ UNCHANGED loopBusy
    /\ Frame

\* spcrew: _update_and_monitor writes 'executing' and starts to wait
update_and_monitor(i) ==
    /\ variant = "spcrew"
    /\ ~loopBusy
    /\ tasks[i].pc = "spawned"
    /\ \E F \in FailChoices :
          \E R \in {MonitorStart(View(cmdStatus, tasks[i]), tasks[i], F)} :
              Commit(i, R, tasks)
    /\ UNCHANGED loopBusy
    /\ Frame

\* the process ends by itself and its result is recorded
ProcessExit(i) ==
    /\ tasks[i].pc = "running"
    /\ tasks[i].outcome.kind = "exit"
    /\ loopBusy = (variant = "v2")
    /\ \E F \in FailChoices :
          \E R \in {AfterExit(variant, View(cmdStatus, tasks[i]), tasks[i], F)} :
              Commit(i, R, tasks)
    /\ loopBusy' = FALSE
    /\ Frame

\* hub.py / portable: wait_for raises TimeoutError, the process is killed
KillOnTimeout(t) == [t EXCEPT !.proc = "killed", !.pc = "reaping"]

TimeoutFires(i) ==
    /\ variant \in {"hub", "portable"}
    /\ ~loopBusy
    /\ tasks[i].pc = "running"
    /\ tasks[i].outcome.kind = "hang"
    /\ tasks' = [tasks EXCEPT ![i] =
                    [KillOnTimeout(tasks[i]) EXCEPT
                        !.elapsed = TimeoutSeconds(variant),
                        !.log = Append(@, LogEntry("kill", tasks[i].script, TRUE))]]
    /\ UNCHANGED <<cmdStatus, script_results, statusLog, spawnCount, loopBusy, dbFaults>>
    /\ Frame

\* hub.py / portable: proc.wait() returns, the timeout result is recorded
TimeoutReturns(i) ==
    /\ variant \in {"hub", "portable"}
    /\ ~loopBusy
    /\ tasks[i].pc = "reaping"
    /\ \E F \in FailChoices :
          \E R \in {AfterTimeout(variant, View(cmdStatus, tasks[i]),
                                  [tasks[i] EXCEPT !.proc = "exited"], F)} :
              Commit(i, R, tasks)
    /\ UNCHANGED loopBusy
    /\ Frame

\* v2: subprocess.run kills the process, waits for it and raises TimeoutExpired
V2TimeoutExpired(i) ==
    /\ variant = "v2"
    /\ loopBusy
    /\ tasks[i].pc = "running"
    /\ tasks[i].outcome.kind = "hang"
    /\ \E F \in FailChoices :
          \E R \in {AfterTimeout(variant,
                                  Note(View(cmdStatus, tasks[i]), "kill", tasks[i].script, TRUE),
                                  [tasks[i] EXCEPT !.proc = "exited",
                                                   !.elapsed = TimeoutSeconds(variant)], F)} :
              Commit(i, R, tasks)
    /\ loopBusy' = FALSE
    /\ Frame

(***************************************************************************)
(* Classifier harness: a finished process is drawn and classified          *)
(***************************************************************************)
Txt_Done == <<"D","o","n","e",".">>
Txt_abandoned == <<"a","b","a","n","d","o","n","e","d">>
Txt_SUCCESS == <<"S","U","C","C","E","S","S">>
Txt_completed == <<"t","a","s","k"," ","C","o","m","p","l","e","t","e","d">>
Txt_ok == <<"o","k">>
Txt_don == <<"d","o","n"," ","e">>
Txt_noerrors == <<"n","o"," ","E","r","r","o","r","s">>
Txt_FAILED == <<"F","A","I","L","E","D">>
Txt_warn == <<"w","a","r","n",":"," ","s","l","o","w">>
Txt_fail == <<"f","a","i","l">>

\* sample texts, each with whether it holds one of the marker words
\* (in any letter case), decided by reading the text
StdoutSamples ==
    {[text |-> Txt_empty, marked |-> FALSE], [text |-> Txt_done, marked |-> TRUE],
     [text |-> Txt_Done, marked |-> TRUE], [text |-> Txt_abandoned, marked |-> TRUE],
     [text |-> Txt_SUCCESS, marked |-> TRUE], [text |-> Txt_completed, marked |-> TRUE],
     [text |-> Txt_ok, marked |-> FALSE], [text |-> Txt_don, marked |-> FALSE],
     [text |-> Txt_FAILED, marked |-> FALSE]}

StderrSamples ==
    {[text |-> Txt_empty, marked |-> FALSE], [text |-> Txt_exc, marked |-> TRUE],
     [text |-> Txt_noerrors, marked |-> TRUE], [text |-> Txt_FAILED, marked |-> TRUE],
     [text |-> Txt_warn, marked |-> FALSE], [text |-> Txt_fail, marked |-> FALSE],
     [text |-> Txt_done, marked |-> FALSE], [text |-> Txt_boom, marked |-> FALSE]}

ExitCodes == {0, 1, 2, 137}

NoClsIn == [rc |-> 0, stdout |-> [text |-> Txt_empty, marked |-> FALSE],
            stderr |-> [text |-> Txt_empty, marked |-> FALSE]]

Classify ==
    /\ clsOut = "none"
    /\ clsOut' = IF IsSuccess(clsIn.rc, clsIn.stdout.text, clsIn.stderr.text)
                 THEN "success" ELSE "failure"
    /\ UNCHANGED <<clsIn, cmdVars, hubVars, regVars, extVars>>

(***************************************************************************)
(* The hubs table and the refresh of hub_scripts (hub.py)                  *)
(***************************************************************************)
MaxRegs == 3

\* machines on which a hub runs: hostname, platform.machine(), platform.processor()
Machines == {<<"alpha", "x86_64", "Intel64">>, <<"beta", "x86_64", "Intel64">>}
ThisMachine == <<"alpha", "x86_64", "Intel64">>

\* sha256(f"{hostname}-{machine}-{processor}").hexdigest()[:16]: the digest
\* of the joined text, a function of the three parts
get_machine_id(m) == <<"sha256[:16]", <<m[1], "-", m[2], "-", m[3]>>>>

\* self.friendly_name = f"Hub-{socket.gethostname()}"
HubFriendlyName(m) == <<"Hub-", m[1]>>

\* hub_data of register_hub
HubData(m) ==
    [machine_id |-> get_machine_id(m), friendly_name |-> HubFriendlyName(m),
     mode |-> "shared", status |-> "online"]

HubRow(id, data) ==
    [id |-> id, machine_id |-> data.machine_id, friendly_name |-> data.friendly_name,
     mode |-> data.mode, status |-> data.status]

InsertAlways(table, data) == Append(table, HubRow(Len(table) + 1, data))

\* upsert(hub_data, on_conflict="machine_id"): the row of that machine_id
\* takes the new fields and keeps its id; without such a row one is inserted
Upsert(table, data) ==
    IF \E r \in 1..Len(table) : table[r].machine_id = data.machine_id
    THEN [r \in 1..Len(table) |->
             IF table[r].machine_id = data.machine_id
             THEN HubRow(table[r].id, data) ELSE table[r]]
    ELSE Append(table, HubRow(Len(table) + 1, data))

\* result.data[0]['id']
UpsertedId(table, data) ==
    (CHOOSE r \in {table[i] : i \in 1..Len(table)} : r.machine_id = data.machine_id).id

\* what discover_scripts may find
Snapshots == {{}, {"beep", "flaky"}, {"beep", "loop"}}

ScriptRows(id, scripts) == {[hub_id |-> id, script_name |-> sn] : sn \in scripts}

RefreshWithoutDelete(rows, id, scripts, delRaises, insRaises) ==
    IF insRaises THEN rows ELSE rows \cup ScriptRows(id, scripts)

\* update_hub_scripts: delete the rows of this hub, insert one row per
\* discovered script; an exception ends the refresh and is logged
RefreshRows(rows, id, scripts, delRaises, insRaises) ==
    IF delRaises THEN rows
    ELSE IF scripts # {} /\ insRaises THEN {r \in rows : r.hub_id # id}
    ELSE {r \in rows : r.hub_id # id} \cup ScriptRows(id, scripts)

(***************************************************************************)
(* Lifecycle of the hub: command channel, reconnection, heartbeat, main    *)
(* loop and cleanup (hub.py and sp_crew_hub.py)                            *)
(***************************************************************************)
max_reconnect_attempts == 10
BackoffCap == 60
MaxChains == 2

RECURSIVE Pow2(_)
Pow2(n) == IF n = 0 THEN 1 ELSE 2 * Pow2(n - 1)

Min(a, b) == IF a < b THEN a ELSE b

BackoffUncapped(n) == Pow2(n)

\* delay = min(2 ** self.reconnect_attempts, 60)
Backoff(n) == Min(Pow2(n), BackoffCap)

IdleChain == [pc |-> "idle", n |-> 0, delay |-> 0]

NeverGivesUp(n) == FALSE

\* if self.reconnect_attempts > self.max_reconnect_attempts
GivesUp(n) == n > max_reconnect_attempts

AttemptsKept(ok, n) == n

\* self.reconnect_attempts after setup_realtime_channel returned (ok) or raised
AttemptsAfterConnect(ok, n) == IF ok THEN 0 ELSE n

LifeFrame == UNCHANGED <<cmdVars, clsVars, regVars, extVars>>

\* environment: the command channel suffers a transport error or is closed
\* by the other side.  setup_realtime_channel registers postgres-changes
\* callbacks only, so no method of the hub is called.
TransportError ==
    /\ mainPc = "loop"
    /\ channel = "subscribed"
    /\ channel' = "broken"
    /\ UNCHANGED <<running, reconnect_attempts, presence_channel, chains, gaveUp,
                   wasReset, mainPc, hbPc, hbLast, shutdownLog>>
    /\ LifeFrame

\* hub.py: handle_websocket_error, called by whoever holds the hub object
handle_websocket_error(k) ==
    /\ variant = "hub"
    /\ mainPc = "loop"
    /\ chains[k].pc = "idle"
    /\ chains' = [chains EXCEPT ![k].pc = "start"]
    /\ UNCHANGED <<running, reconnect_attempts, channel, presence_channel, gaveUp,
                   wasReset, mainPc, hbPc, hbLast, shutdownLog>>
    /\ LifeFrame

\* hub.py: handle_websocket_close starts a reconnection unless shutting down
handle_websocket_close(k) ==
    /\ variant = "hub"
    /\ mainPc = "loop"
    /\ chains[k].pc = "idle"
    /\ chains' = IF running THEN [chains EXCEPT ![k].pc = "start"] ELSE chains
    /\ UNCHANGED <<running, reconnect_attempts, channel, presence_channel, gaveUp,
                   wasReset, mainPc, hbPc, hbLast, shutdownLog>>
    /\ LifeFrame

\* hub.py: reconnect_websocket up to its sleep
reconnect_websocket(k) ==
    /\ mainPc = "loop"
    /\ chains[k].pc = "start"
    /\ IF ~running
       THEN /\ chains' = [chains EXCEPT ![k] = IdleChain]
            /\ UNCHANGED <<running, reconnect_attempts, gaveUp>>
       ELSE /\ reconnect_attempts' = reconnect_attempts + 1
            /\ IF GivesUp(reconnect_attempts + 1)
               THEN /\ running' = FALSE
                    /\ gaveUp' = TRUE
                    /\ chains' = [chains EXCEPT ![k] = IdleChain]
               ELSE /\ chains' = [chains EXCEPT ![k] =
                                    [pc |-> "sleeping", n |-> reconnect_attempts + 1,
                                     delay |-> Backoff(reconnect_attempts + 1)]]
                    /\ UNCHANGED <<running, gaveUp>>
    /\ UNCHANGED <<channel, presence_channel, wasReset, mainPc, hbPc, hbLast, shutdownLog>>
    /\ LifeFrame

\* hub.py: reconnect_websocket after its sleep: the old channels are
\* dropped, setup_realtime_channel and start_presence_async are called; a
\* failure of the former creates the next reconnect_websocket task
Reconnect(k) ==
    /\ mainPc = "loop"
    /\ chains[k].pc = "sleeping"
    /\ \E ok \in BOOLEAN, pok \in BOOLEAN :
          /\ reconnect_attempts' = AttemptsAfterConnect(ok, reconnect_attempts)
          /\ IF ok
             THEN /\ channel' = "subscribed"
                  /\ wasReset' = (wasReset \/ reconnect_attempts > 0)
                  /\ presence_channel' = IF pok THEN "subscribed" ELSE "broken"
                  /\ chains' = [chains EXCEPT ![k] = IdleChain]
             ELSE /\ channel' = "broken"
                  /\ presence_channel' = "unsubscribed"
                  /\ chains' = [chains EXCEPT ![k] = [IdleChain EXCEPT !.pc = "start"]]
                  /\ UNCHANGED wasReset
    /\ UNCHANGED <<running, gaveUp, mainPc, hbPc, hbLast, shutdownLog>>
    /\ LifeFrame

SubscribesUnregistered(registered) == TRUE

\* 'if not self.register_hub(): return'
ProceedsToSubscribe(registered) == registered

\* run_async up to the main loop: register_hub, setup_realtime_channel,
\* presence (its errors are swallowed), heartbeat thread.  When the
\* registration fails run_async returns; when setup_realtime_channel raises
\* the exception leaves run_async.
run_async(registered, connected, pok) ==
    /\ mainPc = "init"
    /\ IF registered
       THEN \E table \in {Upsert(hubs, HubData(ThisMachine))},
               delRaises \in BOOLEAN, insRaises \in BOOLEAN :
              \E id \in {UpsertedId(table, HubData(ThisMachine))} :
                 /\ hubs' = table
                 /\ hub_id' = [hub_id EXCEPT ![ThisMachine] = id]
                 /\ hub_scripts' = RefreshRows(hub_scripts, id, available_scripts,
                                                delRaises, insRaises)
       ELSE UNCHANGED <<hubs, hub_id, hub_scripts>>
    /\ IF ProceedsToSubscribe(registered) /\ connected
       THEN /\ mainPc' = "loop"
            /\ channel' = "subscribed"
            /\ reconnect_attempts' = 0
            /\ presence_channel' = IF pok THEN "subscribed" ELSE "broken"
            /\ hbPc' = "write"
       ELSE /\ mainPc' = "exited"
            /\ channel' = IF registered THEN "broken" ELSE "none"
            /\ UNCHANGED <<reconnect_attempts, presence_channel, hbPc>>
    /\ UNCHANGED <<running, chains, gaveUp, wasReset, hbLast, shutdownLog>>
    /\ UNCHANGED <<cmdVars, clsVars, regs, nRegs, extVars>>

\* what the heartbeat loop does after a write
AfterHeartbeatStopOnError(ok) == IF ok THEN "sleep" ELSE "ended"

AfterHeartbeat(ok) == "sleep"

\* update({'status': st}).eq('id', id) on the hubs table
SetHubStatus(table, id, st) ==
    [r \in 1..Len(table) |->
        IF table[r].id = id THEN [table[r] EXCEPT !.status = st] ELSE table[r]]

\* heartbeat thread: the update of the hubs row to online, which may raise.
\* The thread tests self.running only at the top of its loop, so a write
\* that was due when the shutdown began is still made.
HeartbeatWrite ==
    /\ hbPc = "write"
    /\ \E ok \in BOOLEAN :
          /\ hbLast' = IF ok THEN "ok" ELSE "failed"
          /\ hbPc' = AfterHeartbeat(ok)
          /\ hubs' = IF ok THEN SetHubStatus(hubs, hub_id[ThisMachine], "online") ELSE hubs
    /\ UNCHANGED <<running, reconnect_attempts, channel, presence_channel, chains,
                   gaveUp, wasReset, mainPc, shutdownLog>>
    /\ UNCHANGED <<cmdVars, clsVars, hub_id, hub_scripts, regs, nRegs, extVars>>

\* heartbeat thread: time.sleep(30) is over and 'while self.running' is tested
HeartbeatTick ==
    /\ hbPc = "sleep"
    /\ hbPc' = IF running THEN "write" ELSE "ended"
    /\ UNCHANGED <<running, reconnect_attempts, channel, presence_channel, chains,
                   gaveUp, wasReset, mainPc, hbLast, shutdownLog>>
    /\ LifeFrame

\* the calls of cleanup_connections / cleanup: one try block, left at the
\* first call that raises.  f1, f2, f3: the call raises
CleanupCalls(f1, f2, f3) ==
    LET unsubC == IF channel = "none" THEN <<>>
                  ELSE <<LogEntry("unsubscribe", "channel", ~f1)>>
        unsubP == IF presence_channel = "none" THEN <<>>
                  ELSE <<LogEntry("unsubscribe", "presence", ~f2)>>
        offline == <<LogEntry("update", "offline", ~f3)>>
    IN  IF channel # "none" /\ f1 THEN unsubC
        ELSE IF presence_channel # "none" /\ f2 THEN unsubC \o unsubP
        ELSE unsubC \o unsubP \o offline

\* the hubs table after the calls L of a cleanup
AfterCleanup(table, L) ==
    IF \E k \in 1..Len(L) : L[k] = LogEntry("update", "offline", TRUE)
    THEN SetHubStatus(table, hub_id[ThisMachine], "offline")
    ELSE table

\* the main loop finds self.running false: hub.py leaves run_async without
\* cleanup, sp_crew_hub.py runs cleanup in its finally block; the process
\* ends and takes the daemon heartbeat thread with it
MainLoopExit ==
    /\ mainPc = "loop"
    /\ ~running
    /\ mainPc' = "exited"
    /\ hbPc' = "ended"
    /\ \E f1 \in BOOLEAN, f2 \in BOOLEAN, f3 \in BOOLEAN :
          \E L \in {IF variant = "spcrew" THEN CleanupCalls(f1, f2, f3) ELSE <<>>} :
             /\ shutdownLog' = L
             /\ hubs' = AfterCleanup(hubs, L)
    /\ UNCHANGED <<running, reconnect_attempts, channel, presence_channel, chains,
                   gaveUp, wasReset, hbLast>>
    /\ UNCHANGED <<cmdVars, clsVars, hub_id, hub_scripts, regs, nRegs, extVars>>

\* graceful shutdown: KeyboardInterrupt in the main loop, then the cleanup;
\* the heartbeat thread lives until the process ends
KeyboardInterrupt ==
    /\ mainPc = "loop"
    /\ running
    /\ running' = FALSE
    /\ mainPc' = "cleaned"
    /\ \E f1 \in BOOLEAN, f2 \in BOOLEAN, f3 \in BOOLEAN :
          \E L \in {CleanupCalls(f1, f2, f3)} :
             /\ shutdownLog' = <<LogEntry("interrupt", "KeyboardInterrupt", TRUE)>> \o L
             /\ hubs' = AfterCleanup(hubs, L)
    /\ UNCHANGED <<reconnect_attempts, channel, presence_channel, chains, gaveUp,
                   wasReset, hbPc, hbLast>>
    /\ UNCHANGED <<cmdVars, clsVars, hub_id, hub_scripts, regs, nRegs, extVars>>

\* run_async has returned after the cleanup: asyncio.run returns, main
\* returns, the process ends and takes the daemon heartbeat thread with it
ProcessEnds ==
    /\ mainPc = "cleaned"
    /\ mainPc' = "exited"
    /\ hbPc' = "ended"
    /\ UNCHANGED <<running, reconnect_attempts, channel, presence_channel, chains,
                   gaveUp, wasReset, hbLast, shutdownLog>>
    /\ LifeFrame

\* sp_crew_hub.py: the emergency hotkey clears self.running and arms a
\* timer that ends the process two seconds later
emergency_shutdown ==
    /\ variant = "spcrew"
    /\ mainPc = "loop"
    /\ running
    /\ running' = FALSE
    /\ UNCHANGED <<reconnect_attempts, channel, presence_channel, chains, gaveUp,
                   wasReset, mainPc, hbPc, hbLast, shutdownLog>>
    /\ LifeFrame

\* sp_crew_hub.py: os._exit(0) from the emergency timer, before the main
\* loop has noticed
EmergencyExit ==
    /\ variant = "spcrew"
    /\ mainPc = "loop"
    /\ ~running
    /\ mainPc' = "exited"
    /\ hbPc' = "ended"
    /\ UNCHANGED <<running, reconnect_attempts, channel, presence_channel, chains,
                   gaveUp, wasReset, hbLast, shutdownLog>>
    /\ LifeFrame

(***************************************************************************)
(* Registration (hub.py)                                                   *)
(***************************************************************************)
NoReg == [n |-> 0, ids |-> {}, snap |-> {}, before |-> {}, delOk |-> FALSE, insOk |-> FALSE]

NoRegistration ==
    /\ hubs = <<>>
    /\ hub_id = [m \in Machines |-> NoId]
    /\ hub_scripts = {}
    /\ regs = [m \in Machines |-> NoReg]
    /\ nRegs = 0

RegFrame == UNCHANGED <<variant, dbFaults, processed_commands, cmdPayload, cmdStatus,
                        script_results, tasks, spawnCount, delivered, nEvents, statusLog,
                        loopBusy, clsVars, hubVars, extVars>>

\* register_hub on machine m (a start or restart of its hub process); the
\* upsert, the delete and the insert may each raise
register_hub(m, snap, upRaises, delRaises, insRaises) ==
    /\ nRegs < MaxRegs
    /\ nRegs' = nRegs + 1
    /\ IF upRaises
       THEN UNCHANGED <<hubs, hub_id, hub_scripts, regs, available_scripts>>
       ELSE \E table \in {Upsert(hubs, HubData(m))} :
              \E id \in {UpsertedId(table, HubData(m))} :
                 /\ hubs' = table
                 /\ hub_id' = [hub_id EXCEPT ![m] = id]
                 /\ available_scripts' =
                       IF m = ThisMachine THEN snap ELSE available_scripts
                 /\ hub_scripts' = RefreshRows(hub_scripts, id, snap, delRaises, insRaises)
                 /\ regs' = [regs EXCEPT ![m] =
                                [n |-> @.n + 1, ids |-> @.ids \cup {id}, snap |-> snap,
                                 before |-> {r \in hub_scripts : r.hub_id = id},
                                 delOk |-> ~delRaises,
                                 insOk |-> ~delRaises /\ (snap = {} \/ ~insRaises)]]
    /\ RegFrame

\* environment: the row of a hub is edited by others (the dashboard sets
\* the mode, a cleanup sets the status)
HubRowEdited(r, mode, status) ==
    /\ r \in 1..Len(hubs)
    /\ hubs[r].mode # mode \/ hubs[r].status # status
    /\ hubs' = [hubs EXCEPT ![r].mode = mode, ![r].status = status]
    /\ UNCHANGED <<hub_id, hub_scripts, regs, nRegs, available_scripts>>
    /\ RegFrame

(***************************************************************************)
(* Script discovery (hub.py)                                               *)
(***************************************************************************)
MaxDiscoveries == 2

\* names that may appear in the scripts directory
ItemNames == {"beep", "notes"}

NoEntry == [kind |-> "absent", py |-> FALSE, ps1 |-> FALSE, deps |-> "none"]
FileEntry == [kind |-> "file", py |-> FALSE, ps1 |-> FALSE, deps |-> "none"]

\* a subdirectory D: whether D/D.py and D/D.ps1 exist, and its dependencies:
\* "none" (no pyproject.toml, no inline dependencies), "ok" (the install
\* returns 0), "fail" (it returns non-zero, times out or raises)
DirEntries ==
    {[kind |-> "dir", py |-> a, ps1 |-> b, deps |-> d] :
        a \in BOOLEAN, b \in BOOLEAN, d \in {"none", "ok", "fail"}}

Entries == {NoEntry, FileEntry} \cup DirEntries

EmptyDir == [n \in ItemNames |-> NoEntry]

RECURSIVE SeqOf(_)
SeqOf(S) == IF S = {} THEN <<>>
            ELSE LET x == CHOOSE y \in S : TRUE IN <<x>> \o SeqOf(S \ {x})

\* os.listdir(self.scripts_dir)
ListDir(dir) == SeqOf({n \in ItemNames : dir[n].kind # "absent"})

EntryFilePyOnly(e) == e.py

\* (script_path / f"{item}.py").exists() or (script_path / f"{item}.ps1").exists()
HasEntryFile(e) == e.py \/ e.ps1

\* install_script_dependencies: the cached answer, else ready when nothing
\* is declared, else the outcome of the install; never raises
install_script_dependencies(name, e, ready) ==
    IF ready[name] # "unset" THEN ready[name]
    ELSE IF e.deps = "none" THEN "ready"
    ELSE IF e.deps = "ok" THEN "ready" ELSE "failed"

\* the loop of discover_scripts over the listing
RECURSIVE DiscoverLoop(_, _, _)
DiscoverLoop(items, dir, acc) ==
    IF items = <<>> THEN acc
    ELSE LET item == Head(items)
             e == dir[item]
         IN  IF e.kind = "dir" /\ HasEntryFile(e)
             THEN LET r == install_script_dependencies(item, e, acc.ready)
                  IN  DiscoverLoop(Tail(items), dir,
                         [scripts |-> Append(acc.scripts, item),
                          failed |-> IF r = "ready" THEN acc.failed
                                     ELSE Append(acc.failed, item),
                          ready |-> [acc.ready EXCEPT ![item] = r]])
             ELSE DiscoverLoop(Tail(items), dir, acc)

NoExec == [script |-> None, found |-> FALSE, flagged |-> FALSE, installRan |-> FALSE]

NoDiscovery ==
    /\ scripts_dir = EmptyDir
    /\ scripts_dir_exists = FALSE
    /\ script_dependencies_ready = [n \in ItemNames |-> "unset"]
    /\ failed_deps = {}
    /\ nDisc = 0
    /\ lastExec = NoExec


DiscFrame == UNCHANGED <<variant, dbFaults, processed_commands, cmdPayload, cmdStatus,
                         script_results, tasks, spawnCount, delivered, nEvents, statusLog,
                         loopBusy, clsVars, hubVars, regVars, asgVars, pairVars>>

\* self.available_scripts = self.discover_scripts()
discover_scripts ==
    /\ nDisc < MaxDiscoveries
    /\ nDisc' = nDisc + 1
    /\ IF ~scripts_dir_exists
       THEN /\ available_scripts' = {}
            /\ failed_deps' = {}
            /\ UNCHANGED script_dependencies_ready
       ELSE \E R \in {DiscoverLoop(ListDir(scripts_dir), scripts_dir,
                                   [scripts |-> <<>>, failed |-> <<>>,
                                    ready |-> script_dependencies_ready])} :
              /\ available_scripts' = {R.scripts[k] : k \in 1..Len(R.scripts)}
              /\ failed_deps' = {R.failed[k] : k \in 1..Len(R.failed)}
              /\ script_dependencies_ready' = R.ready
    /\ UNCHANGED <<scripts_dir, scripts_dir_exists, lastExec>>
    /\ DiscFrame

\* environment: the repository pull adds, removes or changes an entry
DirChanged(n, e) ==
    /\ scripts_dir_exists
    /\ nDisc > 0
    /\ scripts_dir[n] # e
    /\ scripts_dir' = [scripts_dir EXCEPT ![n] = e]
    /\ UNCHANGED <<scripts_dir_exists, script_dependencies_ready, failed_deps, nDisc,
                   available_scripts, lastExec>>
    /\ DiscFrame

\* whether a call of install_script_dependencies gets as far as running the
\* installer: not with a cached answer, not without declared dependencies
InstallRuns(name, e, ready) == ready[name] = "unset" /\ e.deps # "none"

\* execute_script up to the launch of the script: 'Script not found', else
\* the check of the dependency flag; v2/hub/hub.py then calls
\* install_script_dependencies "one more time", hub.py only warns
execute_script(name) ==
    /\ nDisc > 0
    /\ IF name \notin available_scripts
       THEN /\ lastExec' = [script |-> name, found |-> FALSE, flagged |-> FALSE,
                            installRan |-> FALSE]
            /\ UNCHANGED script_dependencies_ready
       ELSE IF script_dependencies_ready[name] = "failed" /\ variant = "v2"
               /\ scripts_dir[name].kind = "dir"
       THEN /\ lastExec' = [script |-> name, found |-> TRUE, flagged |-> TRUE,
                            installRan |-> InstallRuns(name, scripts_dir[name],
                                                       script_dependencies_ready)]
            /\ script_dependencies_ready' =
                  [script_dependencies_ready EXCEPT ![name] =
                      install_script_dependencies(name, scripts_dir[name],
                                                  script_dependencies_ready)]
       ELSE /\ lastExec' = [script |-> name, found |-> TRUE,
                            flagged |-> script_dependencies_ready[name] = "failed",
                            installRan |-> FALSE]
            /\ UNCHANGED script_dependencies_ready
    /\ UNCHANGED <<scripts_dir, scripts_dir_exists, failed_deps, nDisc, available_scripts>>
    /\ DiscFrame

(***************************************************************************)
(* Assigned mode: remotes and their scripts (hub.py)                       *)
(***************************************************************************)
MaxRemoteWrites == 2

Users == {"u1", "u2"}

\* f"#{random.randint(0x100000, 0xFFFFFF):06x}"
ScriptColor == "#rrggbb"

RemoteRow(h, u, s, color) ==
    [hub_id |-> h, user_id |-> u, assigned_script |-> s, script_color |-> color]

\* upsert(row, on_conflict='hub_id,user_id')
UpsertRemote(table, row) ==
    {r \in table : ~(r.hub_id = row.hub_id /\ r.user_id = row.user_id)} \cup {row}

\* assign_script_to_remote was not called
Uncalled == <<"uncalled">>

\* the (None, None) that assign_script_to_remote returns without assignment
NoAssignment == <<None, None>>

\* assign_script_to_remote(user_id) with random.choice giving s: the value
\* returned and the table afterwards; the upsert may raise
assign_script_to_remote(avail, table, hid, u, s, upRaises) ==
    IF avail = {} THEN [ret |-> NoAssignment, table |-> table]
    ELSE IF upRaises THEN [ret |-> NoAssignment, table |-> table]
    ELSE [ret |-> <<s, ScriptColor>>,
          table |-> UpsertRemote(table, RemoteRow(hid, u, s, ScriptColor))]

\* hubs.select('mode').eq('id', hub_id).single()
ModeOf(table, hid) ==
    (CHOOSE r \in {table[i] : i \in 1..Len(table)} : r.id = hid).mode

AssignInAnyMode(mode, data) == data.assigned_script = None

\* hub_data.data.get('mode') == 'assigned' and not data.get('assigned_script')
ShouldAssign(mode, data) == mode = "assigned" /\ data.assigned_script = None

NoRemotes ==
    /\ active_remotes = {}
    /\ remoteEvents = <<>>
    /\ nRemoteWrites = 0
    /\ asgLog = <<>>

AsgFrame == UNCHANGED <<cmdVars, clsVars, hubVars, regVars, discVars, pairVars>>

\* environment: the web application inserts or updates the row of a remote;
\* the change is published to the subscribers
RemoteWrites(h, u, s) ==
    /\ nRemoteWrites < MaxRemoteWrites
    /\ nRemoteWrites' = nRemoteWrites + 1
    /\ \E row \in {RemoteRow(h, u, s, IF s = None THEN None ELSE ScriptColor)} :
          /\ active_remotes' = UpsertRemote(active_remotes, row)
          /\ remoteEvents' = Append(remoteEvents, row)
    /\ UNCHANGED asgLog
    /\ AsgFrame

\* handle_remote_connection(payload) for the oldest unhandled change; the
\* select of the mode and the upsert may raise.  The hub's own upsert is a
\* change of active_remotes and is published like any other.
handle_remote_connection(selRaises, upRaises) ==
    /\ remoteEvents # <<>>
    /\ LET data == Head(remoteEvents)
           hid == hub_id[ThisMachine]
       IN  IF data.hub_id # hid
           THEN /\ asgLog' = Append(asgLog, [data |-> data, mode |-> "unread",
                                             ret |-> Uncalled])
                /\ remoteEvents' = Tail(remoteEvents)
                /\ UNCHANGED active_remotes
           ELSE IF selRaises
           THEN /\ asgLog' = Append(asgLog, [data |-> data, mode |-> "raised",
                                             ret |-> Uncalled])
                /\ remoteEvents' = Tail(remoteEvents)
                /\ UNCHANGED active_remotes
           ELSE IF ~ShouldAssign(ModeOf(hubs, hid), data)
           THEN /\ asgLog' = Append(asgLog, [data |-> data, mode |-> ModeOf(hubs, hid),
                                             ret |-> Uncalled])
                /\ remoteEvents' = Tail(remoteEvents)
                /\ UNCHANGED active_remotes
           ELSE \E s \in (IF available_scripts = {} THEN {None} ELSE available_scripts) :
                  \E R \in {assign_script_to_remote(available_scripts, active_remotes,
                                                    hid, data.user_id, s, upRaises)} :
                     /\ asgLog' = Append(asgLog, [data |-> data, mode |-> ModeOf(hubs, hid),
                                                  ret |-> R.ret])
                     /\ active_remotes' = R.table
                     /\ remoteEvents' =
                           IF R.ret = NoAssignment THEN Tail(remoteEvents)
                           ELSE Append(Tail(remoteEvents),
                                       RemoteRow(hid, data.user_id, s, ScriptColor))
    /\ UNCHANGED nRemoteWrites
    /\ AsgFrame

(***************************************************************************)
(* AutomationHub (src/hub.py): paired remotes and their commands           *)
(***************************************************************************)
max_remotes == 6

\* self.command_pool: the script files found by _load_command_pool
CommandPool == {"a.py", "b.py"}

RemoteIds == {"r1", "r2", "r3"}

hub_token == "token"

\* what _assign_command_to_remote returns when nothing is enabled
NoEnabledCommands == "No enabled commands available"

\* get_enabled_scripts
get_enabled_scripts(disabled) == {c \in CommandPool : c \notin disabled}

Tracked(paired) == {r \in RemoteIds : paired[r] # Absent}

\* [s for s in enabled_scripts if s not in used] or enabled_scripts
AvailableFor(enabled, paired) ==
    LET used == {paired[r] : r \in Tracked(paired)}
    IN  IF enabled \ used # {} THEN enabled \ used ELSE enabled

\* _assign_command_to_remote with random.choice giving pick
assign_command_to_remote(enabled, paired, pick) ==
    IF enabled = {} THEN NoEnabledCommands ELSE pick

SampleWithReplacement(enabled, remotes) == [remotes -> enabled]

\* random.sample(enabled_scripts, len(remote_ids)), remote by remote
Sample(enabled, remotes) ==
    {f \in [remotes -> enabled] : \A a, b \in remotes : a # b => f[a] # f[b]}

\* _shuffle_all_assignments with random.sample giving f
shuffle_all_assignments(paired, enabled, f) ==
    IF Tracked(paired) = {} THEN [ok |-> FALSE, msg |-> "No remotes", paired |-> paired]
    ELSE IF Cardinality(enabled) < Cardinality(Tracked(paired))
    THEN [ok |-> FALSE, msg |-> "Not enough scripts", paired |-> paired]
    ELSE [ok |-> TRUE, msg |-> "Shuffled",
          paired |-> [r \in RemoteIds |-> IF paired[r] # Absent THEN f[r] ELSE Absent]]

Msg(type, to, ok, body) == [type |-> type, to |-> to, ok |-> ok, body |-> body]

NoPairing ==
    /\ disabled_scripts = {}
    /\ paired_remotes = [r \in RemoteIds |-> Absent]
    /\ outbox = <<>>

ExtIdle == NoDiscovery /\ NoRemotes /\ NoPairing

PairFrame == UNCHANGED <<cmdVars, clsVars, hubVars, regVars, discVars, asgVars>>

\* _handle_pair(data, remote_id)
handle_pair(token, r) ==
    /\ IF token = hub_token /\ Cardinality(Tracked(paired_remotes)) < max_remotes
       THEN LET enabled == get_enabled_scripts(disabled_scripts)
            IN  \E pick \in (IF enabled = {} THEN {None}
                             ELSE AvailableFor(enabled, paired_remotes)) :
                  \E command \in {assign_command_to_remote(enabled, paired_remotes, pick)} :
                     /\ paired_remotes' = [paired_remotes EXCEPT ![r] = command]
                     /\ outbox' = <<Msg("paired", r, TRUE, command)>>
       ELSE /\ outbox' = <<Msg("paired", r, FALSE, "Connection failed")>>
            /\ UNCHANGED paired_remotes
    /\ UNCHANGED disabled_scripts
    /\ PairFrame

\* _handle_shuffle(data, remote_id)
handle_shuffle(r) ==
    /\ IF paired_remotes[r] # Absent
       THEN LET enabled == get_enabled_scripts(disabled_scripts)
                tracked == Tracked(paired_remotes)
            IN  \E f \in (IF Cardinality(enabled) < Cardinality(tracked)
                          THEN {[x \in tracked |-> None]}
                          ELSE Sample(enabled, tracked)) :
                  \E R \in {shuffle_all_assignments(paired_remotes, enabled, f)} :
                     /\ paired_remotes' = R.paired
                     /\ outbox' =
                           <<Msg("shuffle_state_broadcast", "all", TRUE, "start")>>
                           \o (IF R.ok
                               THEN <<Msg("assignments_broadcast", "all", TRUE, R.paired)>>
                               ELSE <<>>)
                           \o <<Msg("shuffle_state_broadcast", "all", TRUE, "end"),
                                Msg("shuffle_complete", r, R.ok, R.msg)>>
       ELSE /\ outbox' = <<>>
            /\ UNCHANGED paired_remotes
    /\ UNCHANGED disabled_scripts
    /\ PairFrame

\* _handle_script_toggle(data, remote_id): a paired remote enables or
\* disables a script; the assignments are shuffled (the result is not
\* looked at) and broadcast
handle_script_toggle(r, c, enable) ==
    /\ IF paired_remotes[r] # Absent
       THEN \E disabled \in {IF enable THEN disabled_scripts \ {c}
                             ELSE disabled_scripts \cup {c}} :
              LET enabled == get_enabled_scripts(disabled)
                  tracked == Tracked(paired_remotes)
              IN  \E f \in (IF Cardinality(enabled) < Cardinality(tracked)
                            THEN {[x \in tracked |-> None]}
                            ELSE Sample(enabled, tracked)) :
                    \E R \in {shuffle_all_assignments(paired_remotes, enabled, f)} :
                       /\ disabled_scripts' = disabled
                       /\ paired_remotes' = R.paired
                       /\ outbox' = <<Msg("assignments_broadcast", "all", TRUE, R.paired),
                                      Msg("script_toggle_response", r, TRUE, c)>>
       ELSE /\ outbox' = <<>>
            /\ UNCHANGED <<disabled_scripts, paired_remotes>>
    /\ PairFrame

\* the orders in which a dict or a list may hold the elements of S
Orders(S) ==
    {q \in [1..Cardinality(S) -> S] : \A a, b \in 1..Cardinality(S) : a # b => q[a] # q[b]}

\* _ensure_unique_assignments, first loop: the remotes whose command was
\* already seen, in the order of the dict
RECURSIVE FindDuplicates(_, _, _)
FindDuplicates(ord, paired, seen) ==
    IF ord = <<>> THEN <<>>
    ELSE IF paired[Head(ord)] \in seen
         THEN <<Head(ord)>> \o FindDuplicates(Tail(ord), paired, seen)
         ELSE FindDuplicates(Tail(ord), paired, seen \cup {paired[Head(ord)]})

\* _ensure_unique_assignments, second loop: each duplicate takes the first
\* enabled script nobody holds, and keeps its command when there is none
RECURSIVE ReassignDuplicates(_, _, _, _)
ReassignDuplicates(dups, paired, taken, scripts) ==
    IF dups = <<>> THEN paired
    ELSE LET free == SelectSeq(scripts, LAMBDA c : c \notin taken)
         IN  IF free = <<>>
             THEN ReassignDuplicates(Tail(dups), paired, taken, scripts)
             ELSE ReassignDuplicates(Tail(dups),
                                     [paired EXCEPT ![Head(dups)] = Head(free)],
                                     taken \cup {Head(free)}, scripts)

\* _ensure_unique_assignments with the dict in order ord and the enabled
\* scripts in order scripts
ensure_unique_assignments(paired, ord, scripts) ==
    ReassignDuplicates(FindDuplicates(ord, paired, {}), paired,
                       {paired[r] : r \in Tracked(paired)}, scripts)

\* handle_connection(msg): a remote connects by itself
handle_connection(r) ==
    /\ IF Cardinality(Tracked(paired_remotes)) >= max_remotes
       THEN /\ outbox' = <<Msg("connected", r, FALSE, "Hub full"),
                           Msg("assignments_broadcast", "all", TRUE, paired_remotes)>>
            /\ UNCHANGED paired_remotes
       ELSE IF paired_remotes[r] = Absent
       THEN LET enabled == get_enabled_scripts(disabled_scripts)
            IN  \E pick \in (IF enabled = {} THEN {None}
                             ELSE AvailableFor(enabled, paired_remotes)) :
                  \E command \in {assign_command_to_remote(enabled, paired_remotes, pick)} :
                     /\ paired_remotes' = [paired_remotes EXCEPT ![r] = command]
                     /\ outbox' = <<Msg("connected", r, TRUE, command),
                                    Msg("assignments_broadcast", "all", TRUE,
                                        [paired_remotes EXCEPT ![r] = command])>>
       ELSE /\ outbox' = <<Msg("connected", r, TRUE, paired_remotes[r]),
                           Msg("assignments_broadcast", "all", TRUE, paired_remotes)>>
            /\ UNCHANGED paired_remotes
    /\ UNCHANGED disabled_scripts
    /\ PairFrame

\* cleanup_offline_remotes: the remotes in gone were last seen more than
\* two minutes ago
cleanup_offline_remotes(gone) ==
    /\ gone \subseteq Tracked(paired_remotes)
    /\ gone # {}
    /\ LET rest == [r \in RemoteIds |-> IF r \in gone THEN Absent ELSE paired_remotes[r]]
       IN  \E ord \in Orders(Tracked(rest)),
              scripts \in Orders(get_enabled_scripts(disabled_scripts)) :
              paired_remotes' = ensure_unique_assignments(rest, ord, scripts)
    /\ outbox' = <<>>
    /\ UNCHANGED disabled_scripts
    /\ PairFrame

\* what _execute_command did: ran says whether the script was launched
Execution(command, ran) == [script_name |-> command, ran |-> ran]

\* _handle_button_press(data, remote_id); active is self.hub_active, ok the
\* outcome of the script
handle_button_press(active, token, r, ok) ==
    /\ IF ~active
       THEN outbox' = <<Msg("execution_result", r, FALSE, Execution(None, FALSE))>>
       ELSE IF paired_remotes[r] # Absent /\ token = hub_token
       THEN IF paired_remotes[r] \notin CommandPool
            THEN outbox' = <<Msg("execution_result", r, FALSE,
                                 Execution(paired_remotes[r], FALSE))>>
            ELSE outbox' = <<Msg("execution_result", r, ok,
                                 Execution(paired_remotes[r], TRUE))>>
       ELSE outbox' = <<Msg("execution_result", r, FALSE, Execution(None, FALSE))>>
    /\ UNCHANGED <<disabled_scripts, paired_remotes>>
    /\ PairFrame

(***************************************************************************)
(* Specifications                                                          *)
(***************************************************************************)
InitCmd ==
    /\ variant \in Variants
    /\ dbFaults \in {0, MaxDbFaults}
    /\ available_scripts = DiscoveredScripts
    /\ processed_commands = {}
    /\ cmdPayload = [c \in CmdIds |-> NoRow]
    /\ cmdStatus = [c \in CmdIds |-> None]
    /\ script_results = <<>>
    /\ tasks = <<>>
    /\ spawnCount = [c \in CmdIds |-> 0]
    /\ delivered = [c \in CmdIds |-> 0]
    /\ nEvents = 0
    /\ statusLog = [c \in CmdIds |-> <<>>]
    /\ loopBusy = FALSE

\* the lifecycle of the hub as the command engine sees it: up and serving
HubServingChannels ==
    /\ running = TRUE
    /\ reconnect_attempts = 0
    /\ channel = "subscribed"
    /\ presence_channel = "subscribed"
    /\ chains = [k \in 1..MaxChains |-> IdleChain]
    /\ gaveUp = FALSE
    /\ wasReset = FALSE
    /\ mainPc = "loop"
    /\ hbPc = "sleep"
    /\ hbLast = "ok"
    /\ shutdownLog = <<>>

HubServing ==
    /\ HubServingChannels
    /\ NoRegistration
    /\ ExtIdle

Init ==
    /\ InitCmd
    /\ clsIn = NoClsIn
    /\ clsOut = "off"
    /\ HubServing

TaskStep(i) ==
    \/ execute_script_async(i)
    \/ execute_program_async(i)
    \/ update_and_monitor(i)
    \/ ProcessExit(i)
    \/ TimeoutFires(i)
    \/ TimeoutReturns(i)
    \/ V2TimeoutExpired(i)

Next ==
    \/ \E c \in CmdIds \cup {NoId}, p \in Payloads : handle_execute_message(c, p)
    \/ \E i \in 1..Len(tasks) : TaskStep(i)

Spec == Init /\ [][Next]_vars

\* a backend whose calls never raise
InitReliable ==
    /\ Init
    /\ dbFaults = 0

\* the event loop runs the tasks that are ready, processes that end by
\* themselves do end and the wall clock reaches every timeout
FairSpec ==
    InitReliable /\ [][Next]_vars /\ WF_vars(\E i \in 1..Len(tasks) : TaskStep(i))

\* the same scheduling with a backend whose calls may raise
FairFaultySpec ==
    Init /\ [][Next]_vars /\ WF_vars(\E i \in 1..Len(tasks) : TaskStep(i))

\* the hub object after construction, before run_async
InitHub ==
    /\ variant \in {"hub", "spcrew"}
    /\ dbFaults = 0
    /\ available_scripts = DiscoveredScripts
    /\ processed_commands = {}
    /\ cmdPayload = [c \in CmdIds |-> NoRow]
    /\ cmdStatus = [c \in CmdIds |-> None]
    /\ script_results = <<>>
    /\ tasks = <<>>
    /\ spawnCount = [c \in CmdIds |-> 0]
    /\ delivered = [c \in CmdIds |-> 0]
    /\ nEvents = 0
    /\ statusLog = [c \in CmdIds |-> <<>>]
    /\ loopBusy = FALSE
    /\ clsIn = NoClsIn
    /\ clsOut = "off"
    /\ running = TRUE
    /\ reconnect_attempts = 0
    /\ channel = "none"
    /\ presence_channel = "none"
    /\ chains = [k \in 1..MaxChains |-> IdleChain]
    /\ gaveUp = FALSE
    /\ wasReset = FALSE
    /\ mainPc = "init"
    /\ hbPc = "off"
    /\ hbLast = "none"
    /\ shutdownLog = <<>>
    /\ NoRegistration
    /\ ExtIdle

NextHub ==
    \/ \E registered \in BOOLEAN, connected \in BOOLEAN, pok \in BOOLEAN :
          run_async(registered, connected, pok)
    \/ TransportError
    \/ \E k \in 1..MaxChains : handle_websocket_error(k)
    \/ \E k \in 1..MaxChains : handle_websocket_close(k)
    \/ \E k \in 1..MaxChains : reconnect_websocket(k)
    \/ \E k \in 1..MaxChains : Reconnect(k)
    \/ HeartbeatWrite
    \/ HeartbeatTick
    \/ MainLoopExit
    \/ KeyboardInterrupt
    \/ ProcessEnds
    \/ emergency_shutdown
    \/ EmergencyExit

SpecHub == InitHub /\ [][NextHub]_vars

\* the heartbeat thread and the event loop get to run
FairSpecHub ==
    /\ InitHub /\ [][NextHub]_vars
    /\ WF_vars(HeartbeatWrite) /\ WF_vars(HeartbeatTick) /\ WF_vars(MainLoopExit)
    /\ WF_vars(ProcessEnds)

TypeOKHub ==
    /\ reconnect_attempts \in 0..(max_reconnect_attempts + 1)
    /\ mainPc \in {"init", "loop", "cleaned", "exited"}
    /\ hbPc \in {"off", "write", "sleep", "ended"}

InitReg ==
    /\ variant = "hub"
    /\ dbFaults = 0
    /\ available_scripts \in Snapshots
    /\ processed_commands = {}
    /\ cmdPayload = [c \in CmdIds |-> NoRow]
    /\ cmdStatus = [c \in CmdIds |-> None]
    /\ script_results = <<>>
    /\ tasks = <<>>
    /\ spawnCount = [c \in CmdIds |-> 0]
    /\ delivered = [c \in CmdIds |-> 0]
    /\ nEvents = 0
    /\ statusLog = [c \in CmdIds |-> <<>>]
    /\ loopBusy = FALSE
    /\ clsIn = NoClsIn
    /\ clsOut = "off"
    /\ running = TRUE
    /\ reconnect_attempts = 0
    /\ channel = "none"
    /\ presence_channel = "none"
    /\ chains = [k \in 1..MaxChains |-> IdleChain]
    /\ gaveUp = FALSE
    /\ wasReset = FALSE
    /\ mainPc = "init"
    /\ hbPc = "off"
    /\ hbLast = "none"
    /\ shutdownLog = <<>>
    /\ NoRegistration
    /\ ExtIdle

NextReg ==
    \/ \E m \in Machines, snap \in Snapshots,
          upRaises \in BOOLEAN, delRaises \in BOOLEAN, insRaises \in BOOLEAN :
          register_hub(m, snap, upRaises, delRaises, insRaises)
    \/ \E r \in 1..Len(hubs), mode \in {"shared", "assigned"},
          status \in {"online", "offline"} : HubRowEdited(r, mode, status)

SpecReg == InitReg /\ [][NextReg]_vars

InitClassify ==
    /\ variant = "hub"
    /\ dbFaults = 0
    /\ available_scripts = DiscoveredScripts
    /\ processed_commands = {}
    /\ cmdPayload = [c \in CmdIds |-> NoRow]
    /\ cmdStatus = [c \in CmdIds |-> None]
    /\ script_results = <<>>
    /\ tasks = <<>>
    /\ spawnCount = [c \in CmdIds |-> 0]
    /\ delivered = [c \in CmdIds |-> 0]
    /\ nEvents = 0
    /\ statusLog = [c \in CmdIds |-> <<>>]
    /\ loopBusy = FALSE
    /\ clsIn \in [rc : ExitCodes, stdout : StdoutSamples, stderr : StderrSamples]
    /\ clsOut = "none"
    /\ HubServing

NextClassify == Classify

SpecClassify == InitClassify /\ [][NextClassify]_vars

\* the hub object after construction, before run_async: no command, no
\* channel, no registration
Constructed ==
    /\ dbFaults = 0
    /\ processed_commands = {}
    /\ cmdPayload = [c \in CmdIds |-> NoRow]
    /\ cmdStatus = [c \in CmdIds |-> None]
    /\ script_results = <<>>
    /\ tasks = <<>>
    /\ spawnCount = [c \in CmdIds |-> 0]
    /\ delivered = [c \in CmdIds |-> 0]
    /\ nEvents = 0
    /\ statusLog = [c \in CmdIds |-> <<>>]
    /\ loopBusy = FALSE
    /\ clsIn = NoClsIn
    /\ clsOut = "off"
    /\ running = TRUE
    /\ reconnect_attempts = 0
    /\ channel = "none"
    /\ presence_channel = "none"
    /\ chains = [k \in 1..MaxChains |-> IdleChain]
    /\ gaveUp = FALSE
    /\ wasReset = FALSE
    /\ mainPc = "init"
    /\ hbPc = "off"
    /\ hbLast = "none"
    /\ shutdownLog = <<>>
    /\ NoRegistration

\* HubWorker.__init__ about to call discover_scripts on some directory
InitDisc ==
    /\ variant \in {"hub", "v2"}
    /\ Constructed
    /\ available_scripts = {}
    /\ scripts_dir_exists \in BOOLEAN
    /\ scripts_dir \in [ItemNames -> Entries]
    /\ scripts_dir_exists \/ scripts_dir = EmptyDir
    /\ script_dependencies_ready = [n \in ItemNames |-> "unset"]
    /\ failed_deps = {}
    /\ nDisc = 0
    /\ lastExec = NoExec
    /\ NoRemotes
    /\ NoPairing

NextDisc ==
    \/ discover_scripts
    \/ \E n \in ItemNames, e \in Entries : DirChanged(n, e)
    \/ \E n \in ItemNames : execute_script(n)

SpecDisc == InitDisc /\ [][NextDisc]_vars

\* two hubs are registered, this one in either mode, with whatever the
\* discovery found
InitAssign ==
    /\ variant = "hub"
    /\ dbFaults = 0
    /\ processed_commands = {}
    /\ cmdPayload = [c \in CmdIds |-> NoRow]
    /\ cmdStatus = [c \in CmdIds |-> None]
    /\ script_results = <<>>
    /\ tasks = <<>>
    /\ spawnCount = [c \in CmdIds |-> 0]
    /\ delivered = [c \in CmdIds |-> 0]
    /\ nEvents = 0
    /\ statusLog = [c \in CmdIds |-> <<>>]
    /\ loopBusy = FALSE
    /\ clsIn = NoClsIn
    /\ clsOut = "off"
    /\ HubServingChannels
    /\ available_scripts \in Snapshots
    /\ \E mode \in {"shared", "assigned"} :
          hubs = <<HubRow(1, [HubData(ThisMachine) EXCEPT !.mode = mode]),
                   HubRow(2, HubData(<<"beta", "x86_64", "Intel64">>))>>
    /\ hub_id = [m \in Machines |-> IF m = ThisMachine THEN 1 ELSE 2]
    /\ hub_scripts = {}
    /\ regs = [m \in Machines |-> NoReg]
    /\ nRegs = MaxRegs
    /\ NoDiscovery
    /\ NoRemotes
    /\ NoPairing

NextAssign ==
    \/ \E h \in {1, 2}, u \in Users, s \in {None, "beep"} :
          RemoteWrites(h, u, s)
    \/ \E selRaises \in BOOLEAN, upRaises \in BOOLEAN :
          handle_remote_connection(selRaises, upRaises)
    \/ \E mode \in {"shared", "assigned"} : HubRowEdited(1, mode, "online")

SpecAssign == InitAssign /\ [][NextAssign]_vars

\* an AutomationHub with no remote paired yet and any set of scripts
\* disabled
InitPair ==
    /\ variant = "hub"
    /\ Constructed
    /\ available_scripts = {}
    /\ NoDiscovery
    /\ NoRemotes
    /\ disabled_scripts \in SUBSET CommandPool
    /\ paired_remotes = [r \in RemoteIds |-> Absent]
    /\ outbox = <<>>

NextPair ==
    \/ \E token \in {hub_token, "other"}, r \in RemoteIds : handle_pair(token, r)
    \/ \E r \in RemoteIds : handle_shuffle(r)
    \/ \E r \in RemoteIds, c \in CommandPool, enable \in BOOLEAN :
          handle_script_toggle(r, c, enable)
    \/ \E r \in RemoteIds : handle_connection(r)
    \/ \E gone \in SUBSET RemoteIds : cleanup_offline_remotes(gone)
    \/ \E active \in BOOLEAN, token \in {hub_token, "other"}, r \in RemoteIds,
          ok \in BOOLEAN : handle_button_press(active, token, r, ok)

SpecPair == InitPair /\ [][NextPair]_vars

TypeOK ==
    /\ variant \in Variants
    /\ nEvents \in 0..MaxEvents
    /\ Len(tasks) <= nEvents
    /\ \A i \in 1..Len(tasks) : tasks[i].pc \in {"start", "spawned", "running", "reaping", "done"}

(***************************************************************************)
(* Vocabulary of the properties                                            *)
(***************************************************************************)
TaskIdx == 1..Len(tasks)
TasksOf(c) == {i \in TaskIdx : tasks[i].cmd = c}
Terminal == {"completed", "failed"}
AsyncVariants == {"hub", "portable", "v2"}

HasEntry(log, op, arg, ok) == \E k \in 1..Len(log) : log[k] = LogEntry(op, arg, ok)
\* a backend call of the execution raised
SomeCallRaised(log) == \E k \in 1..Len(log) : ~log[k].ok /\ log[k].op # "spawn"
\* a write of status failed was attempted after position k of the trace
FailedAttemptedAfter(log, k) ==
    \E m \in (k + 1)..Len(log) : log[m].op \in {"final", "fallback"} /\ log[m].arg = "failed"
RowsOf(c) == SelectSeq(script_results, LAMBDA r : r.command_id = c)
HubWroteTerminal(c) == \E k \in 1..Len(statusLog[c]) : statusLog[c][k] \in Terminal

(***************************************************************************)
(* C1                                                                      *)
(***************************************************************************)
\* C1: in portable_hub_silent.py and sp_crew_hub.py at most one execution is
\* started, and at most one process launched, per command id, however often
\* the 'command inserted' event of that id is delivered.
C1_AtMostOneExecution ==
    variant \in {"portable", "spcrew"} =>
        \A c \in CmdIds : Cardinality(TasksOf(c)) <= 1 /\ spawnCount[c] <= 1

\* a second event of a command arrived after its only execution had finished
C1_Witness ==
    /\ variant \in {"portable", "spcrew"}
    /\ \E c \in CmdIds :
          /\ delivered[c] >= 2
          /\ spawnCount[c] = 1
          /\ \E i \in TasksOf(c) : tasks[i].pc = "done"

(***************************************************************************)
(* C2                                                                      *)
(***************************************************************************)
CleanTrace ==
    <<LogEntry("exec", "executing", TRUE), LogEntry("spawn", "beep", TRUE),
      LogEntry("exit", "beep", TRUE), LogEntry("insert", "script_results", TRUE),
      LogEntry("final", "completed", TRUE)>>

C2_Order ==
    variant \in AsyncVariants =>
        \A i \in TaskIdx :
            (tasks[i].pc = "done" /\ tasks[i].script = "beep" /\ ~SomeCallRaised(tasks[i].log))
            => /\ tasks[i].log = CleanTrace
               /\ \E k \in 1..Len(script_results) :
                     /\ script_results[k].command_id = tasks[i].cmd
                     /\ script_results[k].success
                     /\ script_results[k].exit_code = 0

C2_InFlight(i) ==
    /\ variant \in AsyncVariants
    /\ i \in TaskIdx
    /\ tasks[i].pc # "done"
    /\ tasks[i].script = "beep"
    /\ ~SomeCallRaised(tasks[i].log)
    /\ dbFaults = 0

C2_Completed(i) == i \in TaskIdx /\ cmdStatus[tasks[i].cmd] = "completed"

\* C2: a pending command naming the discovered script "beep" (exit 0, empty
\* stderr), handled while every backend write succeeds, is set to executing,
\* run, given a script_results row with success=true and exit_code=0 and then
\* set to completed, in that order; and it eventually reaches completed.
C2_PendingRunsToCompleted ==
    /\ []C2_Order
    /\ \A i \in 1..MaxEvents : C2_InFlight(i) ~> C2_Completed(i)

\* hub.py has brought a "beep" command to completed without any call raising
C2_Witness ==
    /\ variant = "hub"
    /\ \E i \in TaskIdx :
          /\ tasks[i].pc = "done"
          /\ tasks[i].log = CleanTrace
          /\ cmdStatus[tasks[i].cmd] = "completed"

(***************************************************************************)
(* C3                                                                      *)
(***************************************************************************)
\* C3: in hub.py, v2 and sp_crew_hub.py, when a backend call of an accepted
\* command's handling raises, a write of status failed is still attempted
\* afterwards; and when no such write raised, a command all of whose
\* executions have ended is not left in executing.
C3_FailedIsAlwaysAttempted ==
    variant \in {"hub", "v2", "spcrew"} =>
        /\ \A i \in TaskIdx :
              tasks[i].pc = "done" =>
                  \A k \in 1..Len(tasks[i].log) :
                      (~tasks[i].log[k].ok /\ tasks[i].log[k].op \in {"exec", "insert", "final"})
                      => FailedAttemptedAfter(tasks[i].log, k)
        /\ \A c \in CmdIds :
              (/\ TasksOf(c) # {}
               /\ \A i \in TasksOf(c) :
                     /\ tasks[i].pc = "done"
                     /\ ~HasEntry(tasks[i].log, "fallback", "failed", FALSE)
                     /\ ~HasEntry(tasks[i].log, "final", "failed", FALSE))
              => cmdStatus[c] # "executing"

\* the same statement for hub.py and v2 alone
C3_HubAndV2 ==
    variant \in {"hub", "v2"} =>
        /\ \A i \in TaskIdx :
              tasks[i].pc = "done" =>
                  \A k \in 1..Len(tasks[i].log) :
                      (~tasks[i].log[k].ok /\ tasks[i].log[k].op \in {"exec", "insert", "final"})
                      => FailedAttemptedAfter(tasks[i].log, k)
        /\ \A c \in CmdIds :
              (/\ TasksOf(c) # {}
               /\ \A i \in TasksOf(c) :
                     /\ tasks[i].pc = "done"
                     /\ ~HasEntry(tasks[i].log, "fallback", "failed", FALSE)
                     /\ ~HasEntry(tasks[i].log, "final", "failed", FALSE))
              => cmdStatus[c] # "executing"

(***************************************************************************)
(* C4                                                                      *)
(***************************************************************************)
C4_Hung(i) ==
    /\ variant \in {"hub", "spcrew"}
    /\ i \in TaskIdx
    /\ tasks[i].proc = "running"
    /\ tasks[i].outcome.kind = "hang"
    /\ ~SomeCallRaised(tasks[i].log)
    /\ dbFaults = 0

C4_KilledAndFailed(i) ==
    /\ i \in TaskIdx
    /\ tasks[i].pc = "done"
    /\ tasks[i].proc = "exited"
    /\ cmdStatus[tasks[i].cmd] = "failed"

\* C4: in hub.py and sp_crew_hub.py a command whose script never terminates
\* on its own is killed at the timeout and waited for, its command ends in
\* failed, and the process is gone once the executor has returned.
C4_HungScriptIsKilled ==
    \A i \in 1..MaxEvents : C4_Hung(i) ~> C4_KilledAndFailed(i)

\* the same statement for hub.py alone
C4_HubAlone ==
    \A i \in 1..MaxEvents : (C4_Hung(i) /\ variant = "hub") ~> C4_KilledAndFailed(i)

(***************************************************************************)
(* C5                                                                      *)
(***************************************************************************)
\* C5: in hub.py, portable and v2 the handler returns without waiting for
\* the script: while a script is running the event loop is free to accept
\* the next 'command inserted' event.
C5_HandlerDoesNotWait ==
    variant \in AsyncVariants =>
        ((\E i \in TaskIdx : tasks[i].pc = "running") => ~loopBusy)

\* the same statement for hub.py and portable alone
C5_HubAndPortable ==
    variant \in {"hub", "portable"} =>
        ((\E i \in TaskIdx : tasks[i].pc = "running") => ~loopBusy)

(***************************************************************************)
(* C6                                                                      *)
(***************************************************************************)
\* C6: in hub.py the statuses written for one command are executing and then
\* completed or failed (or failed alone, from the fallback), and nothing is
\* written for the command after completed or failed.
C6_StatusWritesInOrder ==
    variant = "hub" =>
        \A c \in CmdIds :
            statusLog[c] \in {<<>>, <<"executing">>, <<"failed">>,
                              <<"executing", "completed">>, <<"executing", "failed">>}

(***************************************************************************)
(* C7                                                                      *)
(***************************************************************************)
\* the events the claim calls rejected
C7_Rejected(c, p) ==
    \/ p.script_name = None
    \/ c = NoId
    \/ (p.status # Absent /\ p.status # "pending")

\* C7: the handling of an event without script name, without command id or
\* with a status other than pending writes nothing to the backend, launches
\* no process, creates no execution and leaves processed_commands alone.
C7_RejectedEventHasNoEffect ==
    [][\A c \in CmdIds \cup {NoId}, p \in Payloads :
          (handle_execute_message(c, p) /\ C7_Rejected(c, p))
          => /\ UNCHANGED <<script_results, statusLog, tasks, spawnCount,
                           processed_commands, loopBusy, dbFaults>>
             /\ \A d \in CmdIds :
                   cmdStatus'[d] # cmdStatus[d]
                   => (d = c /\ cmdPayload[c] = NoRow /\ cmdStatus'[d] = StatusOf(p))]_vars

\* an event with status completed was handled and nothing happened
C7_Witness ==
    \E c \in CmdIds :
        /\ delivered[c] >= 1
        /\ cmdPayload[c].status = "completed"
        /\ TasksOf(c) = {}
        /\ statusLog[c] = <<>>

NotFoundTrace ==
    <<LogEntry("exec", "executing", TRUE), LogEntry("insert", "script_results", TRUE),
      LogEntry("final", "failed", TRUE)>>

\* executions of hub.py for a script that is not in available_scripts
C9_Missing == {i \in TaskIdx : variant = "hub" /\ tasks[i].script \notin available_scripts}

C9_NotFoundRow(i) ==
    \E k \in 1..Len(script_results) :
        script_results[k] = ResultRow(tasks[i].cmd, NotFoundResult(tasks[i].script))

C9_NoSpawn ==
    \A i \in C9_Missing :
        /\ tasks[i].proc = "none"
        /\ spawnCount[tasks[i].cmd] = 0
        /\ \A k \in 1..Len(tasks[i].log) : tasks[i].log[k].op # "spawn"

C9_FailedResult ==
    \A i \in C9_Missing :
        tasks[i].pc = "done" =>
            /\ HasEntry(tasks[i].log, "exec", "executing", TRUE)
               => /\ tasks[i].res = NotFoundResult(tasks[i].script)
                  /\ ~tasks[i].res.success
                  /\ tasks[i].res.error[1] = "Script not found: "
            /\ HasEntry(tasks[i].log, "insert", "script_results", TRUE) => C9_NotFoundRow(i)
            /\ ~SomeCallRaised(tasks[i].log) => tasks[i].log = NotFoundTrace

C9_EndsFailed ==
    \A i \in C9_Missing :
        (\A j \in TasksOf(tasks[i].cmd) :
            tasks[j].pc = "done" /\ ~SomeCallRaised(tasks[j].log))
        => cmdStatus[tasks[i].cmd] = "failed"

\* a valid command is in flight after a 'not found' command has been handled
C9_LaterValid(i) ==
    /\ i \in TaskIdx
    /\ tasks[i].script = "beep"
    /\ tasks[i].pc # "done"
    /\ ~SomeCallRaised(tasks[i].log)
    /\ dbFaults = 0
    /\ \E j \in C9_Missing : j < i /\ tasks[j].pc = "done"

C10_SuccessClassification ==
    clsOut \in {"success", "failure"} =>
        /\ (clsOut = "success")
           <=> ((clsIn.rc = 0 \/ clsIn.stdout.marked) /\ ~clsIn.stderr.marked)
        /\ (clsIn.rc = 1 /\ clsIn.stdout.text = Txt_done /\ clsIn.stderr.text = Txt_empty)
           => clsOut = "success"
        /\ (clsIn.rc = 0 /\ clsIn.stdout.text = Txt_empty /\ clsIn.stderr.text = Txt_exc)
           => clsOut = "failure"

\* exit code 2 with "SUCCESS" on stdout and a harmless stderr was classified success
C10_Witness ==
    /\ clsOut = "success"
    /\ clsIn.rc = 2
    /\ clsIn.stdout.text = Txt_SUCCESS
    /\ clsIn.stderr.text = Txt_warn

(***************************************************************************)
(* C11                                                                     *)
(***************************************************************************)
\* C11: the failure returned when the timeout fired reads 'Script execution
\* timed out (<N>s limit)' with N the number of seconds the executor waited
\* before it gave up on that execution.
C11_TimeoutTextNamesEnforcedTimeout ==
    \A i \in TaskIdx :
        (tasks[i].res.set /\ tasks[i].elapsed > 0)
        => tasks[i].res.error =
              <<"Script execution timed out (", NumText(tasks[i].elapsed), "s limit)">>

\* the same statement for hub.py and v2 alone
C11_HubAndV2 ==
    variant \in {"hub", "v2"} =>
        \A i \in TaskIdx :
            (tasks[i].res.set /\ tasks[i].elapsed > 0)
            => tasks[i].res.error =
                  <<"Script execution timed out (", NumText(tasks[i].elapsed), "s limit)">>

(***************************************************************************)
(* C12                                                                     *)
(***************************************************************************)
\* C12: whenever the command channel suffers a transport error or an
\* unexpected close while the hub is running, a reconnection cycle is
\* started: the step in which the channel breaks creates a
\* reconnect_websocket task.
C12_ChannelErrorStartsReconnection ==
    [][(TransportError /\ running)
       => \E k \in 1..MaxChains : chains[k].pc = "idle" /\ chains'[k].pc = "start"]_vars

(***************************************************************************)
(* C13                                                                     *)
(***************************************************************************)
C13_Delays == <<2, 4, 8, 16, 32, 60, 60, 60, 60, 60>>

\* C13: the delay slept before reconnection attempt n is min(2^n, 60)
\* seconds, n starting at 1: 2, 4, 8, 16, 32 for attempts 1 to 5 and 60 from
\* attempt 6 on.
C13_BackoffSequence ==
    \A k \in 1..MaxChains :
        chains[k].pc = "sleeping"
        => /\ chains[k].n \in 1..Len(C13_Delays)
           /\ chains[k].delay = C13_Delays[chains[k].n]

\* attempt 7 sleeps 60 seconds
C13_Witness == \E k \in 1..MaxChains : chains[k].pc = "sleeping" /\ chains[k].n = 7

(***************************************************************************)
(* C14                                                                     *)
(***************************************************************************)
\* C14: the reconnection chain is bounded: no attempt has a number above
\* max_reconnect_attempts, the call that follows the tenth consecutive
\* failed attempt gives up, and once the hub has given up no reconnection
\* attempt is started any more.
C14_ReconnectionIsBounded ==
    /\ [](/\ reconnect_attempts <= max_reconnect_attempts + 1
          /\ \A k \in 1..MaxChains : chains[k].n <= max_reconnect_attempts
          /\ gaveUp => ~running)
    /\ [][\A k \in 1..MaxChains :
            /\ (reconnect_websocket(k) /\ running
                /\ reconnect_attempts = max_reconnect_attempts)
               => (gaveUp' /\ ~running' /\ chains'[k].pc = "idle")
            /\ (gaveUp /\ chains'[k].pc = "sleeping") => chains[k].pc = "sleeping"]_vars

\* the hub has given up after ten failed attempts
C14_Witness ==
    /\ gaveUp
    /\ reconnect_attempts = max_reconnect_attempts + 1
    /\ \A k \in 1..MaxChains : chains[k].pc = "idle"

(***************************************************************************)
(* C15                                                                     *)
(***************************************************************************)
\* C15: when setup_realtime_channel completes successfully the attempt
\* counter is 0, an attempt whose connection fails leaves the counter as it
\* was, and a reconnection started with the counter at 0 waits 2 seconds.
C15_SuccessResetsCounter ==
    [][/\ \A k \in 1..MaxChains :
             /\ Reconnect(k)
                => IF channel' = "subscribed"
                   THEN reconnect_attempts' = 0
                   ELSE reconnect_attempts' = reconnect_attempts
             /\ (reconnect_websocket(k) /\ running /\ reconnect_attempts = 0)
                => (chains'[k].pc = "sleeping" /\ chains'[k].delay = 2)
       /\ (mainPc = "init" /\ mainPc' = "loop") => reconnect_attempts' = 0]_vars

\* after a reconnection that reset the counter, the next chain is at its
\* first attempt and sleeps 2 seconds
C15_Witness ==
    /\ wasReset
    /\ \E k \in 1..MaxChains :
          chains[k].pc = "sleeping" /\ chains[k].n = 1 /\ chains[k].delay = 2

(***************************************************************************)
(* C16                                                                     *)
(***************************************************************************)
\* C16: after the hub has given up reconnecting, the process does not end:
\* the main loop keeps running and the heartbeat loop keeps writing.
C16_GivingUpKeepsProcessAlive ==
    gaveUp => (mainPc = "loop" /\ hbPc \in {"write", "sleep"})

(***************************************************************************)
(* C17                                                                     *)
(***************************************************************************)
C17_FailedBeat == hbLast = "failed" /\ hbPc = "sleep" /\ running /\ mainPc = "loop"

\* C17: a failed heartbeat write does not end the heartbeat loop: the loop
\* ends only when the hub stops running, and after a failed write another
\* write is due at the next tick for as long as the hub is running.
C17_HeartbeatSurvivesFailure ==
    /\ []((hbPc = "ended") => (~running \/ mainPc = "exited"))
    /\ C17_FailedBeat ~> (hbPc = "write" \/ ~running \/ mainPc = "exited")

\* the write after a failed write is due
C17_Witness == hbLast = "failed" /\ hbPc = "write" /\ running

(***************************************************************************)
(* C18                                                                     *)
(***************************************************************************)
C18_Graceful == shutdownLog # <<>> /\ shutdownLog[1].op = "interrupt"

C18_Unsubscribed(what, m) ==
    \E j \in 1..(m - 1) :
        shutdownLog[j].op = "unsubscribe" /\ shutdownLog[j].arg = what

\* C18: on every graceful shutdown the write of status offline is attempted,
\* after the command channel and the presence channel were unsubscribed.
C18_OfflineWriteAfterUnsubscribes ==
    C18_Graceful =>
        \E m \in 1..Len(shutdownLog) :
            /\ shutdownLog[m].op = "update"
            /\ shutdownLog[m].arg = "offline"
            /\ channel # "none" => C18_Unsubscribed("channel", m)
            /\ presence_channel # "none" => C18_Unsubscribed("presence", m)

\* the same statement for shutdowns in which no unsubscribe raised
C18_WhenUnsubscribesSucceed ==
    (C18_Graceful /\ \A j \in 1..Len(shutdownLog) : shutdownLog[j].ok)
    => \E m \in 1..Len(shutdownLog) :
            /\ shutdownLog[m].op = "update"
            /\ shutdownLog[m].arg = "offline"
            /\ channel # "none" => C18_Unsubscribed("channel", m)
            /\ presence_channel # "none" => C18_Unsubscribed("presence", m)

(***************************************************************************)
(* C19                                                                     *)
(***************************************************************************)
C19_RowsOf(m) == {r \in 1..Len(hubs) : hubs[r].machine_id = get_machine_id(m)}

\* C19: registering again from the same machine leaves exactly one hubs row
\* for its machine_id, binds the same hub_id every time, and each
\* registration leaves the row holding the fields it sent, whatever was
\* done to the row in between.
C19_RegistrationIsRestartStable ==
    /\ [](\A m \in Machines :
             /\ Cardinality(C19_RowsOf(m)) <= 1
             /\ regs[m].n >= 1
                => /\ Cardinality(C19_RowsOf(m)) = 1
                   /\ regs[m].ids = {hub_id[m]}
                   /\ \A r \in C19_RowsOf(m) : hubs[r].id = hub_id[m])
    /\ [][\A m \in Machines :
             regs'[m].n = regs[m].n + 1
             => \A r \in 1..Len(hubs') :
                   hubs'[r].machine_id = get_machine_id(m)
                   => hubs'[r] = HubRow(hub_id'[m], HubData(m))]_vars

\* both machines are registered, one of them for the second time
C19_Witness ==
    /\ Len(hubs) = 2
    /\ regs[ThisMachine].n = 2
    /\ hub_id[ThisMachine] # NoId
    /\ \E m \in Machines : m # ThisMachine /\ regs[m].n = 1

(***************************************************************************)
(* C20                                                                     *)
(***************************************************************************)
C20_Scripts(m) == {r.script_name : r \in {x \in hub_scripts : x.hub_id = hub_id[m]}}

SpawnPos(log) ==
    IF \E k \in 1..Len(log) : log[k].op = "spawn" /\ log[k].ok
    THEN CHOOSE k \in 1..Len(log) : log[k].op = "spawn" /\ log[k].ok
    ELSE 0

ExecutingWrittenBefore(log, k) ==
    \E j \in 1..(k - 1) : log[j] = LogEntry("exec", "executing", TRUE)

\* C26: the hub writes status executing for a command before it launches
\* the command's process: every execution that has launched a process had
\* written executing before, so no process runs for a command the hub
\* still shows as pending.
C26_ExecutingBeforeLaunch ==
    \A i \in TaskIdx :
        SpawnPos(tasks[i].log) > 0
        => ExecutingWrittenBefore(tasks[i].log, SpawnPos(tasks[i].log))

\* the same statement for hub.py, portable and v2 alone
C26_AsyncVariants ==
    variant \in AsyncVariants =>
        \A i \in TaskIdx :
            SpawnPos(tasks[i].log) > 0
            => ExecutingWrittenBefore(tasks[i].log, SpawnPos(tasks[i].log))

(***************************************************************************)
(* C27                                                                     *)
(***************************************************************************)
C27_HubWroteCompleted(c) ==
    \E k \in 1..Len(statusLog[c]) : statusLog[c][k] = "completed"

\* C27: the result row is inserted before the terminal status is written:
\* whenever the hub has written completed for a command, a script_results
\* row of that command with success=true exists, and in the trace of every
\* execution a successful final status write comes after a successful insert.
C27_RowBeforeTerminalStatus ==
    /\ \A c \in CmdIds :
          C27_HubWroteCompleted(c)
          => \E k \in 1..Len(script_results) :
                script_results[k].command_id = c /\ script_results[k].success
    /\ \A i \in TaskIdx :
          \A k \in 1..Len(tasks[i].log) :
              (tasks[i].log[k].op = "final" /\ tasks[i].log[k].ok)
              => \E j \in 1..(k - 1) :
                    tasks[i].log[j] = LogEntry("insert", "script_results", TRUE)

\* sp_crew_hub.py has completed a command while the backend was failing
\* other calls
C27_Witness ==
    /\ variant = "spcrew"
    /\ dbFaults < MaxDbFaults
    /\ \E c \in CmdIds :
          /\ cmdStatus[c] = "completed"
          /\ C27_HubWroteCompleted(c)
          /\ Len(RowsOf(c)) = 1

(***************************************************************************)
(* C28                                                                     *)
(***************************************************************************)
\* a reconnection cycle ends as successful: the chain goes idle after its
\* sleep while the hub keeps running
C28_CycleSucceeds(k) ==
    /\ chains[k].pc = "sleeping"
    /\ chains'[k].pc = "idle"
    /\ mainPc' = "loop"

\* C28: a reconnection attempt counts as successful (the counter is reset,
\* no retry is scheduled) only when both the command subscription and the
\* presence are re-established.
C28_SuccessNeedsPresence ==
    [][\A k \in 1..MaxChains :
          C28_CycleSucceeds(k)
          => channel' = "subscribed" /\ presence_channel' = "subscribed"]_vars

\* the command subscription alone is always re-established by a cycle that
\* ends as successful
C28_SuccessNeedsSubscription ==
    [][\A k \in 1..MaxChains :
          C28_CycleSucceeds(k) => channel' = "subscribed"]_vars

(***************************************************************************)
(* C29                                                                     *)
(***************************************************************************)
C29_OfflineAttempted ==
    \E k \in 1..Len(shutdownLog) :
        shutdownLog[k].op = "update" /\ shutdownLog[k].arg = "offline"

\* C29: when the hub has given up reconnecting and its process has ended,
\* the update of its hubs row to status offline has been made.
C29_GivingUpWritesOffline ==
    (gaveUp /\ mainPc = "exited") => C29_OfflineAttempted

(***************************************************************************)
(* C30                                                                     *)
(***************************************************************************)
\* C30: as long as no registration has bound hub_id, no channel is
\* subscribed, the heartbeat thread does not exist and has written
\* nothing, the main loop is not entered and no command is executed.
C30_NothingBeforeRegistration ==
    hub_id[ThisMachine] = NoId
    => /\ channel = "none"
       /\ presence_channel = "none"
       /\ hbPc = "off"
       /\ hbLast = "none"
       /\ mainPc # "loop"
       /\ tasks = <<>>

\* run_async has returned because the registration failed
C30_Witness ==
    /\ mainPc = "exited"
    /\ hub_id[ThisMachine] = NoId
    /\ hbPc = "off"

(***************************************************************************)
(* C21                                                                     *)
(***************************************************************************)
C21_Present(dir) ==
    {n \in ItemNames : dir[n].kind = "dir" /\ (dir[n].py \/ dir[n].ps1)}

\* C21: discover_scripts returns exactly the names of the immediate
\* subdirectories D that contain D.py or D.ps1, whatever the outcome of the
\* dependency install; plain files and directories without an entry file
\* are left out, and a missing scripts directory gives the empty list.
C21_DiscoveryIsExact ==
    [][nDisc' = nDisc + 1
       => available_scripts' =
             IF scripts_dir_exists THEN C21_Present(scripts_dir) ELSE {}]_vars

\* a discovery has returned a script whose dependency install failed and
\* has skipped a directory without entry file
C21_Witness ==
    /\ nDisc > 0
    /\ C21_Present(scripts_dir) = available_scripts
    /\ \E n \in available_scripts :
          n \in failed_deps /\ script_dependencies_ready[n] = "failed"
    /\ \E m \in ItemNames :
          /\ scripts_dir[m].kind = "dir"
          /\ ~scripts_dir[m].py /\ ~scripts_dir[m].ps1
          /\ m \notin available_scripts

(***************************************************************************)
(* C22                                                                     *)
(***************************************************************************)
\* handle_remote_connection has handled one more change
C22_Handled == Len(asgLog') = Len(asgLog) + 1

\* C22: handling a change of a remote, the hub writes to active_remotes
\* only if the remote's hub_id is this hub's, the mode of the hub is
\* assigned and the remote has no assigned_script; what it then writes is
\* the row of that remote of this hub with one of the available scripts.
C22_AssignsOnlyWhenDue ==
    [][(C22_Handled /\ active_remotes' # active_remotes)
       => /\ Head(remoteEvents).hub_id = hub_id[ThisMachine]
          /\ ModeOf(hubs, hub_id[ThisMachine]) = "assigned"
          /\ Head(remoteEvents).assigned_script = None
          /\ \E s \in available_scripts :
                active_remotes' =
                   UpsertRemote(active_remotes,
                                RemoteRow(hub_id[ThisMachine], Head(remoteEvents).user_id,
                                          s, ScriptColor))]_vars

\* the hub has assigned a script to one remote and has left alone a remote
\* of the other hub and a change handled in shared mode
C22_Witness ==
    /\ \E k \in 1..Len(asgLog) :
          asgLog[k].mode = "assigned" /\ asgLog[k].ret # Uncalled
          /\ asgLog[k].ret # NoAssignment
    /\ \E k \in 1..Len(asgLog) :
          asgLog[k].mode \in {"shared", "unread"} /\ asgLog[k].ret = Uncalled
    /\ \E r \in active_remotes :
          r.hub_id = hub_id[ThisMachine] /\ r.assigned_script \in available_scripts

\* hub.py alone for C23: a call of assign_script_to_remote with no script
\* available returns (None, None) and leaves active_remotes as it was
C23_HubPyEmptyListIsSentinel ==
    [][(C22_Handled /\ asgLog'[Len(asgLog')].ret # Uncalled /\ available_scripts = {})
       => /\ asgLog'[Len(asgLog')].ret = NoAssignment
          /\ active_remotes' = active_remotes]_vars

C23_HubPyWitness ==
    /\ available_scripts = {}
    /\ \E k \in 1..Len(asgLog) : asgLog[k].ret = NoAssignment

(***************************************************************************)
(* C23                                                                     *)
(***************************************************************************)
\* C23: with no script available to assign, the assignment gives back its
\* sentinel and nothing is persisted as the command of a remote: every
\* remote that is tracked holds a script of the pool.
C23_NothingPersistedWithoutScripts ==
    \A r \in RemoteIds : paired_remotes[r] \in {Absent} \cup CommandPool

(***************************************************************************)
(* C24                                                                     *)
(***************************************************************************)
C24_ShuffleSucceeded(box) ==
    \E k \in 1..Len(box) : box[k].type = "shuffle_complete" /\ box[k].ok

\* C24: after a successful shuffle-all every tracked remote holds an
\* enabled script and no two tracked remotes hold the same script.
C24_ShuffleIsDistinct ==
    [][C24_ShuffleSucceeded(outbox')
       => /\ Tracked(paired_remotes') = Tracked(paired_remotes)
          /\ \A r \in Tracked(paired_remotes') :
                paired_remotes'[r] \in get_enabled_scripts(disabled_scripts)
          /\ \A a, b \in Tracked(paired_remotes') :
                a # b => paired_remotes'[a] # paired_remotes'[b]]_vars

\* a shuffle has succeeded for two remotes
C24_Witness ==
    /\ C24_ShuffleSucceeded(outbox)
    /\ Cardinality(Tracked(paired_remotes)) = 2
    /\ \A a, b \in Tracked(paired_remotes) : a # b => paired_remotes[a] # paired_remotes[b]

(***************************************************************************)
(* C25                                                                     *)
(***************************************************************************)
C25_ShuffleHandled(box) ==
    \E k \in 1..Len(box) : box[k].type = "shuffle_complete"

\* C25: a shuffle request of a tracked remote is carried out and the new
\* mapping is broadcast, also when the tracked remotes outnumber the
\* enabled scripts.
C25_ShuffleAlwaysTakesPlace ==
    [][(C25_ShuffleHandled(outbox') /\ get_enabled_scripts(disabled_scripts) # {})
       => /\ C24_ShuffleSucceeded(outbox')
          /\ \E k \in 1..Len(outbox') :
                outbox'[k] = Msg("assignments_broadcast", "all", TRUE, paired_remotes')
          /\ \A r \in Tracked(paired_remotes) :
                paired_remotes'[r] \in get_enabled_scripts(disabled_scripts)]_vars

\* with enough scripts the request is carried out and broadcast
C25_ShuffleWithEnoughScripts ==
    [][(C25_ShuffleHandled(outbox')
        /\ Cardinality(get_enabled_scripts(disabled_scripts))
              >= Cardinality(Tracked(paired_remotes)))
       => /\ C24_ShuffleSucceeded(outbox')
          /\ \E k \in 1..Len(outbox') :
                outbox'[k] = Msg("assignments_broadcast", "all", TRUE, paired_remotes')]_vars

(***************************************************************************)
(* C32                                                                     *)
(***************************************************************************)
C32_LastWritten(c) == statusLog[c][Len(statusLog[c])]

C32_HasTerminal(c) ==
    Len(statusLog[c]) > 0 /\ C32_LastWritten(c) \in {"completed", "failed"}

\* C32: for every command with a terminal status written by the hub and a
\* result row, the status is completed exactly when the row says
\* success=true, also when a backend write of the sub-flow has failed.
C32_StatusAgreesWithRow ==
    \A c \in CmdIds :
        (C32_HasTerminal(c) /\ cmdStatus[c] = C32_LastWritten(c))
        => \A k \in 1..Len(script_results) :
              script_results[k].command_id = c
              => (cmdStatus[c] = "completed" <=> script_results[k].success)

\* the same statement for commands executed once with no backend call raising
C32_WithReliableBackend ==
        \A c \in CmdIds :
            (/\ C32_HasTerminal(c) /\ cmdStatus[c] = C32_LastWritten(c)
             /\ Cardinality(TasksOf(c)) = 1
             /\ \A i \in TasksOf(c) : ~SomeCallRaised(tasks[i].log))
            => \A k \in 1..Len(script_results) :
                  script_results[k].command_id = c
                  => (cmdStatus[c] = "completed" <=> script_results[k].success)

(***************************************************************************)
(* C36                                                                     *)
(***************************************************************************)
\* C36: a refresh whose batch insert has failed leaves the rows the hub
\* advertised before it in place.
C36_FailedRefreshKeepsRows ==
    \A m \in Machines :
        (regs[m].n > 0 /\ regs[m].delOk /\ ~regs[m].insOk)
        => regs[m].before \subseteq hub_scripts

\* a refresh whose delete has failed does leave the rows in place
C36_FailedDeleteKeepsRows ==
    \A m \in Machines :
        (regs[m].n > 0 /\ ~regs[m].delOk) => regs[m].before \subseteq hub_scripts

(***************************************************************************)
(* C33                                                                     *)
(***************************************************************************)
C33_Active == {k \in 1..MaxChains : chains[k].pc # "idle"}

\* C33: at most one reconnection cycle is in progress at any time.
C33_AtMostOneCycle ==
    Cardinality(C33_Active) <= 1

\* an error or close reported while a cycle is in progress does not
\* advance the shared attempt counter beyond what that cycle has counted
C33_CounterCountsOneCycle ==
    \A k \in 1..MaxChains :
        chains[k].pc = "sleeping" => reconnect_attempts = chains[k].n

(***************************************************************************)
(* C35                                                                     *)
(***************************************************************************)
\* the script the table holds for remote u of this hub, None without one
C35_AssignedTo(table, u) ==
    IF \E r \in table : r.hub_id = hub_id[ThisMachine] /\ r.user_id = u
                        /\ r.assigned_script # None
    THEN (CHOOSE r \in table : r.hub_id = hub_id[ThisMachine] /\ r.user_id = u).assigned_script
    ELSE None

\* the script held by remote u is one the hub has assigned
C35_AssignedByHub(u) ==
    /\ C35_AssignedTo(active_remotes, u) # None
    /\ \E k \in 1..Len(asgLog) :
          /\ asgLog[k].data.user_id = u
          /\ asgLog[k].ret = <<C35_AssignedTo(active_remotes, u), ScriptColor>>

\* C35: once the hub has persisted an assignment for a remote, no change
\* it handles for that remote alters the assigned script.
C35_AssignmentIsStable ==
    [][C22_Handled
       => \A u \in Users :
             C35_AssignedByHub(u)
             => C35_AssignedTo(active_remotes', u) = C35_AssignedTo(active_remotes, u)]_vars

\* the change published for the hub's own upsert causes no second assignment
C35_OwnUpsertIsIgnored ==
    [][(C22_Handled /\ Head(remoteEvents).assigned_script # None)
       => active_remotes' = active_remotes]_vars

(***************************************************************************)
(* C37                                                                     *)
(***************************************************************************)
\* C37: whenever the paired remotes are no more than the enabled scripts,
\* no two paired remotes hold the same assigned command.
C37_DistinctWhenPossible ==
    Cardinality(Tracked(paired_remotes))
       <= Cardinality(get_enabled_scripts(disabled_scripts))
    => \A a, b \in Tracked(paired_remotes) :
          a # b => paired_remotes[a] # paired_remotes[b]

(***************************************************************************)
(* C38                                                                     *)
(***************************************************************************)
\* C38: a button press never launches a script that is disabled at the
\* time of the press.
C38_NeverRunsDisabled ==
    [][\A k \in 1..Len(outbox') :
          (outbox'[k].type = "execution_result" /\ outbox'[k].body.ran)
          => outbox'[k].body.script_name \notin disabled_scripts]_vars

\* what a button press launches is always the command the remote holds
C38_RunsTheAssignedCommand ==
    [][\A k \in 1..Len(outbox') :
          (outbox'[k].type = "execution_result" /\ outbox'[k].body.ran)
          => outbox'[k].body.script_name = paired_remotes[outbox'[k].to]]_vars

(***************************************************************************)
(* C39                                                                     *)
(***************************************************************************)
\* C39: in v2/hub/hub.py, executing a script whose dependency-ready flag
\* is false runs the install of its dependencies one more time before the
\* script is run.
C39_RetryInstalls ==
    (variant = "v2" /\ lastExec.found /\ lastExec.flagged
     /\ scripts_dir[lastExec.script].kind = "dir"
     /\ scripts_dir[lastExec.script].deps # "none")
    => lastExec.installRan

\* the call is made but never reaches the installer
C39_RetryIsNeverAnInstall ==
    ~lastExec.installRan

(***************************************************************************)
(* C34                                                                     *)
(***************************************************************************)
C34_RowStatus(table) ==
    (CHOOSE r \in {table[i] : i \in 1..Len(table)} : r.id = hub_id[ThisMachine]).status

\* the graceful shutdown has written status offline to the row of the hub
C34_OfflineWritten ==
    /\ C18_Graceful
    /\ \E k \in 1..Len(shutdownLog) : shutdownLog[k] = LogEntry("update", "offline", TRUE)

\* C34: once the graceful shutdown has written status offline to the row
\* of the hub, no later write of the hub sets it back to online.
C34_OfflineIsFinal ==
    [][(C34_OfflineWritten /\ C34_RowStatus(hubs) = "offline")
       => C34_RowStatus(hubs') = "offline"]_vars

\* a heartbeat thread that was asleep when the shutdown began writes nothing
C34_SleepingHeartbeatStaysQuiet ==
    [][(C34_OfflineWritten /\ hbPc = "sleep") => hubs' = hubs]_vars

(***************************************************************************)
(* Commands and the command channel (hub.py)                               *)
(*                                                                         *)
(* setup_realtime_channel subscribes to the INSERT events of               *)
(* script_commands filtered by hub_id; handle_execute_message is the only  *)
(* reader of commands and the table is never queried.                      *)
(***************************************************************************)
\* the subscribed channel delivers an INSERT to handle_execute_message; a
\* row that was inserted while no channel was subscribed raises no event
postgres_changes(c, p) ==
    /\ channel = "subscribed"
    /\ c \in CmdIds => (cmdPayload[c] = NoRow \/ delivered[c] > 0)
    /\ handle_execute_message(c, p)

\* environment: the web application inserts a command for this hub while
\* the command channel of the hub is not subscribed
CommandInsertedOffline(c, p) ==
    /\ nEvents < MaxEvents
    /\ channel # "subscribed"
    /\ cmdPayload[c] = NoRow
    /\ nEvents' = nEvents + 1
    /\ cmdPayload' = [cmdPayload EXCEPT ![c] = p]
    /\ cmdStatus' = [cmdStatus EXCEPT ![c] = StatusOf(p)]
    /\ UNCHANGED <<variant, dbFaults, available_scripts, processed_commands,
                   script_results, tasks, spawnCount, delivered, statusLog, loopBusy,
                   clsVars, hubVars, regVars, extVars>>

\* the commands of the outage scenario name one installed script
OutagePayloads == {p \in Payloads : p.script_name = "beep"}

InitOutage ==
    /\ Init
    /\ variant = "hub"
    /\ dbFaults = 0

NextOutage ==
    \/ \E c \in CmdIds \cup {NoId}, p \in OutagePayloads : postgres_changes(c, p)
    \/ \E c \in CmdIds, p \in OutagePayloads : CommandInsertedOffline(c, p)
    \/ \E i \in 1..Len(tasks) : TaskStep(i)
    \/ TransportError
    \/ \E k \in 1..MaxChains : handle_websocket_error(k)
    \/ \E k \in 1..MaxChains : reconnect_websocket(k)
    \/ \E k \in 1..MaxChains : Reconnect(k)

SpecOutage == InitOutage /\ [][NextOutage]_vars

\* the event loop runs the tasks that are ready: executions and the
\* reconnection chains
FairSpecOutage ==
    /\ InitOutage /\ [][NextOutage]_vars
    /\ WF_vars(\E i \in 1..Len(tasks) : TaskStep(i))
    /\ WF_vars(\E k \in 1..MaxChains : reconnect_websocket(k))
    /\ WF_vars(\E k \in 1..MaxChains : Reconnect(k))

(***************************************************************************)
(* C31                                                                     *)
(***************************************************************************)
\* a well-formed pending command for a known script was inserted while the
\* channel was down and has not been handed to the hub
C31_Missed(c) ==
    /\ cmdPayload[c] # NoRow
    /\ delivered[c] = 0
    /\ cmdStatus[c] = "pending"
    /\ cmdPayload[c].script_name \in available_scripts

C31_PickedUp(c) == TasksOf(c) # {} \/ cmdStatus[c] # "pending"

\* C31: a command inserted with status pending while the command channel
\* of the hub was disconnected is picked up and executed once the hub has
\* reconnected.
C31_MissedCommandIsExecuted ==
    \A c \in CmdIds : (C31_Missed(c) /\ channel = "subscribed") ~> C31_PickedUp(c)

\* a command inserted while the channel is subscribed is picked up
C31_Delivered(c) ==
    /\ cmdPayload[c] # NoRow
    /\ delivered[c] > 0
    /\ cmdStatus[c] = "pending"
    /\ WellFormed(c, cmdPayload[c])

C31_DeliveredCommandIsExecuted ==
    \A c \in CmdIds : C31_Delivered(c) => TasksOf(c) # {}

\* no step of the hub or of the channel changes a missed command
C31_MissedStaysMissed ==
    [][\A c \in CmdIds : C31_Missed(c) => C31_Missed(c)']_vars

\* the hub is subscribed again with a missed command still pending
C31_MissedAfterReconnect ==
    \E c \in CmdIds : C31_Missed(c) /\ channel = "subscribed" /\ wasReset

====
